---- MODULE Spec2Model ----
(***************************************************************************)
(* State-machine model of app-sticky-memo.                                 *)
(*                                                                         *)
(*   SpecMonitor  src/src/core/foreground_monitor.py  ForegroundMonitor    *)
(*                polling thread, one step per statement that reads the    *)
(*                shutdown flag or calls out, interleaved with the thread  *)
(*                that sets the flag.                                      *)
(*   Spec         src/app.py  main(): window/page event handlers, the      *)
(*                settings document and file, the polling loop             *)
(*                update_foreground_app.                                   *)
(*   SpecMemo     src/src/core/memo_manager.py  MemoManager: the mapping.  *)
(*   SpecCreate   MemoManager.create_memo_file and the note files.         *)
(*   SpecSanitize MemoManager._sanitize_filename on candidate names.       *)
(*   SpecSettings src/src/core/settings_manager.py  SettingsManager.       *)
(*   SpecEditor   src/src/components/memo_editor.py  MemoEditor.           *)
(*   SpecAppWatcher  src/app.py  update_foreground_app, step by step.      *)
(*   SpecMonitorFair SpecMonitor with a fair polling thread.               *)
(*   SpecStore    MemoManager operations that catch their I/O failures.    *)
(*   SpecHeader   src/src/components/header.py  HeaderComponent.           *)
(*   SpecTranslate   src/src/locales/i18n.py  I18nManager.t.               *)
(*   SpecHandlers SettingsManager.update_window_settings, two callers.     *)
(*   SpecStart    ForegroundMonitor.start_monitoring and its threads.      *)
(*   SpecPanel    src/src/components/settings_panel.py  SettingsPanel.     *)
(*   SpecSaving   MemoEditor.save_memo statement by statement on a timer   *)
(*                thread, text changes on the UI thread.                   *)
(*   SpecCreators the note-file creators statement by statement on two     *)
(*                threads, next to the editor's saves.                     *)
(*                                                                         *)
(* Names (executable names, memo names, file stems) are sequences of       *)
(* one-character strings, so that the string functions of the source are   *)
(* computed character by character.                                        *)
(***************************************************************************)
EXTENDS Integers, Sequences, FiniteSets, TLC

VARIABLES
    shutdown,          \* _shutdown_event / shutdown_event: the flag is set
    notes,             \* note files on disk: [path -> content]
    \* ---- ForegroundMonitor (foreground_monitor.py)
    mon_pc,            \* position of the polling thread in _monitor_loop
    mon_app,           \* local app_name of the current iteration
    last_app,          \* self.last_app
    has_cb,            \* on_app_change_callback is not None
    has_ui,            \* on_ui_update_callback is not None
    display,           \* AppDisplayComponent.current_app_text.value
    last_cb,           \* history: argument of the latest app-changed call
    stable,            \* history: every reading since that call equals it
    seen,              \* history: readings so far are Example[1..seen], or Off
    calls,             \* history: app-changed arguments while on Example
    raised,            \* history: an exception has reached the loop's except
    last_raw,          \* history: the latest raw OS reading
    \* ---- main() of app.py: window, settings, handlers
    window,            \* page.window: width, height, left, top
    settings,          \* the settings dict of main()
    disk,              \* settings.json: [state, doc]
    settings_panel_visible,
    snack_bar,         \* page.snack_bar: the notice on show
    ev,                \* history: the latest handled event
    \* ---- update_foreground_app of app.py
    aw_pc,             \* position of the polling thread
    aw_app,            \* local app_name
    aw_last,           \* local last_app
    current_app_text,  \* current_app_text.value
    \* ---- MemoManager (memo_manager.py)
    data_dir,          \* self.data_dir (self.mapping_file is in it)
    mapping,           \* self.mapping: pairs <<exe_name, memo_name>> in
                       \* insertion order, one per key
    mapping_files,     \* mapping.yaml of each directory: [state, items]
    derived,           \* history: keys auto-created and not overridden since
    memo_call,         \* history: the latest MemoManager call and its result
    \* ---- SettingsManager (settings_manager.py)
    sm_file,           \* the settings file: [state, doc]
    default_window,    \* the dict object default_settings["window"]
    sm_settings,       \* self.settings
    sm_shared,         \* self.settings["window"] is that same dict object
    sm_call,           \* history: the latest SettingsManager call and its result
    \* ---- MemoEditor (memo_editor.py)
    current_file_path, \* self.current_file_path
    title_text,        \* self.title_text.value
    is_dirty,          \* self.is_dirty
    text_area,         \* self.text_area.value
    save_status,       \* self.save_status: value, color, visible
    hide_pending,      \* hide_status threads of auto_save still sleeping
    markdown_preview,  \* self.markdown_preview.value
    selected_index,    \* self.tab_container.selected_index
    ed_call,           \* history: the latest MemoEditor call and its result
    \* ---- _sanitize_filename applied to candidate names
    san_in,            \* the candidate name
    san_out,           \* _sanitize_filename(san_in), once computed
    san_twice,         \* _sanitize_filename(san_out), once computed
    \* ---- HeaderComponent (header.py)
    hd_page,           \* self.page is set
    window_width,      \* page.window.width, or None
    title_container_visible, \* self.title_container.visible
    title_text_visible,      \* self.title_text.visible
    always_on_top_checkbox,  \* self.always_on_top_checkbox.value
    hd_call,           \* history: the latest HeaderComponent call and whether
                       \* it called page.update()
    \* ---- I18nManager (i18n.py)
    strings,           \* self.strings: the table of the current language
    tr_key,            \* the key of the lookup under study
    tr_kwargs,         \* the names of the format arguments supplied
    tr_result,         \* what t(key, **kwargs) did, once called
    \* ---- handler threads that call update_window_settings and save_settings
    uw_pc,             \* position of each handler thread
    uw_args,           \* width, height, left, top passed by each thread
    \* ---- the threads made by start_monitoring (foreground_monitor.py)
    poll_pc,           \* position of each Thread object in _monitor_loop
    monitor_thread,    \* self.monitor_thread: the latest Thread object, or 0
    start_calls,       \* start_monitoring calls made so far
    \* ---- SettingsPanel (settings_panel.py)
    initial_data_dir,  \* self.initial_data_dir
    data_dir_field,    \* self.data_dir_field.value
    sp_visible,        \* self.visible
    container_visible, \* self.container.visible
    sp_external,       \* history: the construction value or the latest
                       \* update_data_dir argument
    sp_call,           \* history: the latest handler and the callbacks it made
    \* ---- save_memo on a timer thread, text changes on the UI thread
    sv_pc,             \* position of the timer thread in save_memo
    sv_caller,         \* "auto_save" or "save_memo": who called save_memo
    ui_pc,             \* the UI thread: "idle", or "handler" when the toolkit
                       \* has stored the text and _on_text_change is due
    last_save,         \* history: how the latest attempted write ended
    overlap,           \* history: a text change fell within a save_memo call
    \* ---- threads that create a note file
    cr_pc,             \* position of each creating thread
    cr_kind,           \* "manager": MemoManager.create_memo_file,
                       \* "watcher": ForegroundMonitor._create_memo_file
    cr_content,        \* the content argument of create_memo_file
    \* ---- what the polling thread did with the shutdown flag set
    cb_after,          \* history: app-changed callback invocations
    ui_after,          \* history: UI-update callback invocations
    created_after      \* history: note files created

mon_vars == <<mon_pc, mon_app, last_app, has_cb, has_ui, display,
              last_cb, stable, seen, calls, raised, last_raw>>

app_vars == <<window, settings, disk, settings_panel_visible, ev>>

aw_vars == <<aw_pc, aw_app, aw_last, current_app_text>>

memo_vars == <<data_dir, mapping, mapping_files, derived, memo_call>>

sm_vars == <<sm_file, default_window, sm_settings, sm_shared, sm_call>>

ed_vars == <<current_file_path, title_text, is_dirty, text_area, save_status,
             hide_pending, markdown_preview, selected_index, ed_call>>

san_vars == <<san_in, san_out, san_twice>>

\* the component classes
hd_vars == <<hd_page, window_width, title_container_visible,
             title_text_visible, always_on_top_checkbox, hd_call>>

tr_vars == <<strings, tr_key, tr_kwargs, tr_result>>

uw_vars == <<uw_pc, uw_args>>

st_vars == <<poll_pc, monitor_thread, start_calls>>

sp_vars == <<initial_data_dir, data_dir_field, sp_visible, container_visible,
             sp_external, sp_call>>

sv_vars == <<sv_pc, sv_caller, ui_pc, last_save, overlap>>

cr_vars == <<cr_pc, cr_kind, cr_content>>

sd_vars == <<cb_after, ui_after, created_after>>

last_vars == <<sp_vars, sv_vars, cr_vars, sd_vars>>

more_vars == <<hd_vars, tr_vars, uw_vars, st_vars, last_vars>>

\* the component classes modelled first, and the notice
first_vars == <<sm_vars, ed_vars, san_vars, snack_bar>>

\* what the polling thread of ForegroundMonitor never touches
quiet_vars == <<first_vars, hd_vars, tr_vars, uw_vars, st_vars, sp_vars,
                sv_vars, cr_vars>>

comp_vars == <<first_vars, more_vars>>

vars == <<shutdown, notes, mon_vars, app_vars, aw_vars, memo_vars, comp_vars>>

----------------------------------------------------------------------------
(* Characters and Python's str methods on them *)

LowerLetters ==
    {"a", "b", "c", "d", "e", "f", "g", "h", "i", "j", "k", "l", "m", "n", "o",
     "p", "q", "r", "s", "t", "u", "v", "w", "x", "y", "z"}

UpperLetters == {"A", "E", "M", "X"}

Digits == {"2"}

\* str.isalnum() on one character
IsAlnum(c) == c \in LowerLetters \cup UpperLetters \cup Digits

\* str.lower() on one character
LowerChar(c) ==
    CASE c = "A" -> "a" [] c = "E" -> "e" [] c = "M" -> "m" [] c = "X" -> "x"
      [] OTHER -> c

Lower(s) == [i \in 1..Len(s) |-> LowerChar(s[i])]

\* str.endswith
EndsWith(s, suf) ==
    /\ Len(s) >= Len(suf)
    /\ SubSeq(s, Len(s) - Len(suf) + 1, Len(s)) = suf

\* "".join(c for c in s if keep(c))
RECURSIVE KeepSafe(_)
KeepSafe(s) ==
    IF s = <<>> THEN <<>>
    ELSE IF IsAlnum(Head(s)) \/ Head(s) \in {" ", "-", "_"}
         THEN <<Head(s)>> \o KeepSafe(Tail(s))
         ELSE KeepSafe(Tail(s))

\* str.rstrip(): of the characters KeepSafe keeps only " " is whitespace
RECURSIVE RStrip(_)
RStrip(s) ==
    IF s = <<>> THEN s
    ELSE IF s[Len(s)] = " " THEN RStrip(SubSeq(s, 1, Len(s) - 1)) ELSE s

\* str.replace(" ", "_")
SpacesToUnderscores(s) == [i \in 1..Len(s) |-> IF s[i] = " " THEN "_" ELSE s[i]]

DotExe == <<".", "e", "x", "e">>

UnknownApp == <<"u", "n", "k", "n", "o", "w", "n", "_", "a", "p", "p">>

\* Python's None, of the same shape as a name so that the two compare
NoneVal == <<"<None>">>

\* truthiness of `app_name`: None and "" are falsy
Truthy(n) == n # NoneVal /\ n # <<>>

----------------------------------------------------------------------------
(* Executable names the OS can report *)

AppA == <<"a", ".", "e", "x", "e">>

AppB == <<"b", " ", "c", ".", "E", "X", "E">>

PythonExe == <<"p", "y", "t", "h", "o", "n", ".", "e", "x", "e">>

PythonwExe == <<"p", "y", "t", "h", "o", "n", "w", ".", "e", "x", "e">>

AppPy == <<"a", "p", "p", ".", "p", "y">>

FletExe == <<"f", "l", "e", "t", ".", "e", "x", "e">>

SelfNames == {PythonExe, PythonwExe, AppPy, FletExe}

\* what win32gui/psutil can yield: a process name, no foreground window
\* (hwnd == 0), or an exception anywhere in the chain
NoWindow == <<"<hwnd 0>">>

LookupError == <<"<raise>">>

RawReadings == {AppA, AppB, <<>>} \cup SelfNames \cup {NoWindow, LookupError}

\* get_foreground_app(): the same function in foreground_monitor.py and app.py
SelfFilterOff(raw) ==
    IF raw = NoWindow \/ raw = LookupError THEN NoneVal ELSE raw

get_foreground_app(raw) ==
    IF raw = NoWindow THEN NoneVal
    ELSE IF raw = LookupError THEN NoneVal
    ELSE IF raw \in SelfNames THEN NoneVal
    ELSE raw

\* the debounce conditions of the polling loops (foreground_monitor.py lines
\* 104-106 and 114-115, app.py lines 425 and 454), without the flag
AppChangedNoDebounce(app_name, last) == Truthy(app_name)

AppChanged(app_name, last) == Truthy(app_name) /\ app_name # last

SelfFocused(app_name, last) == app_name = NoneVal /\ last # NoneVal

----------------------------------------------------------------------------
(* Note files *)

\* str(Path.home() / "Documents" / "StickyMemos"), abbreviated
DefaultDir == <<"S">>

DirA == <<"A">>

\* get_memo_file_path(app_name, data_dir) of foreground_monitor.py and app.py;
\* a path is <<directory, stem>>, the ".md" suffix being the same for all
watcher_memo_file_path(app_name, dir) ==
    <<dir, SpacesToUnderscores(RStrip(KeepSafe(app_name)))>>

\* MemoManager._remove_extension
_remove_extension(filename) ==
    IF EndsWith(Lower(filename), DotExe)
    THEN SubSeq(filename, 1, Len(filename) - 4)
    ELSE filename

\* a sanitization that leaves the spaces in
SanitizeKeepSpaces(filename) ==
    LET safe_chars == RStrip(KeepSafe(filename))
    IN  IF safe_chars = <<>> THEN UnknownApp ELSE safe_chars

\* a sanitization without the fallback name
SanitizeNoFallback(filename) == SpacesToUnderscores(RStrip(KeepSafe(filename)))

\* MemoManager._sanitize_filename
_sanitize_filename(filename) ==
    LET safe_chars == SpacesToUnderscores(RStrip(KeepSafe(filename)))
    IN  IF safe_chars = <<>> THEN UnknownApp ELSE safe_chars

\* content written by the watcher: "# {app_name} ..." plus a timestamp
WatcherTemplate(app_name) == [kind |-> "watcher_template", name |-> app_name]

Exists(path) == path \in DOMAIN notes

WriteNote(path, content) ==
    [p \in DOMAIN notes \cup {path} |-> IF p = path THEN content ELSE notes[p]]

----------------------------------------------------------------------------
(* AppDisplayComponent (app_display.py) *)

InitialText == [kind |-> "initial", name |-> NoneVal]

update_app_name(app_name) ==
    IF Truthy(app_name)
    THEN [kind |-> "current", name |-> app_name]
    ELSE [kind |-> "self_focused", name |-> NoneVal]

----------------------------------------------------------------------------
(* MemoManager (memo_manager.py) *)

\* a memo name a user can give in update_mapping
CustomName == <<"n", "!">>

\* an executable reported without an extension
PlainA == <<"a">>

MemoExes == {AppA, AppB, PlainA}

MemoDirs == {DefaultDir, DirA}

\* dict operations on insertion-ordered pairs
Keys(m) == {m[i][1] : i \in 1..Len(m)}

Lookup(m, k) == m[CHOOSE i \in 1..Len(m) : m[i][1] = k][2]

Count(m, k) == Cardinality({i \in 1..Len(m) : m[i][1] = k})

\* m[k] = v
DictSet(m, k, v) ==
    IF k \in Keys(m)
    THEN [i \in 1..Len(m) |-> IF m[i][1] = k THEN <<k, v>> ELSE m[i]]
    ELSE Append(m, <<k, v>>)

NoMappingFile == [state |-> "absent", items |-> <<>>]

CorruptMappingFile == [state |-> "corrupt", items |-> <<>>]

RECURSIVE FromItems(_, _)
FromItems(m, items) ==
    IF items = <<>> THEN m
    ELSE FromItems(DictSet(m, Head(items)[1], Head(items)[2]), Tail(items))

\* load_mapping(), lines 214-236
load_mapping(file) ==
    IF file.state = "ok" THEN FromItems(<<>>, file.items) ELSE <<>>

\* a save that adds the newest pair to the file instead of rewriting it
SaveMappingLastPair(m) ==
    [state |-> "ok", items |-> IF m = <<>> THEN <<>> ELSE <<m[Len(m)]>>]

\* save_mapping(), lines 238-262
save_mapping(m) == [state |-> "ok", items |-> m]

\* get_memo_name(exe_name), lines 278-299: the mapping afterwards, the name
\* returned, and whether the mapping file was rewritten
GetMemoNameAppend(m, exe_name) ==
    LET base_name == _remove_extension(exe_name)
    IN  [mapping |-> Append(m, <<exe_name, base_name>>), name |-> base_name,
         saved |-> TRUE]

get_memo_name(m, exe_name) ==
    IF exe_name \in Keys(m)
    THEN [mapping |-> m, name |-> Lookup(m, exe_name), saved |-> FALSE]
    ELSE LET base_name == _remove_extension(exe_name)
         IN  [mapping |-> DictSet(m, exe_name, base_name), name |-> base_name,
              saved |-> TRUE]

\* a path composed from the executable name itself
GetMemoFilePathRaw(m, dir, exe_name) == <<dir, _sanitize_filename(exe_name)>>

\* get_memo_file_path(exe_name), lines 36-48
get_memo_file_path(m, dir, exe_name) ==
    <<dir, _sanitize_filename(get_memo_name(m, exe_name).name)>>

\* the effect of a get_memo_name call on the store
ApplyGetMemoName(exe_name) ==
    LET r == get_memo_name(mapping, exe_name) IN
    /\ mapping' = r.mapping
    /\ mapping_files' = IF r.saved
                        THEN [mapping_files EXCEPT ![data_dir] = save_mapping(r.mapping)]
                        ELSE mapping_files
    /\ derived' = IF r.saved THEN derived \cup {exe_name} ELSE derived

MemoFrame == UNCHANGED <<shutdown, mon_vars, app_vars, aw_vars, comp_vars>>

MmGetMemoName ==
    \E exe_name \in MemoExes :
      /\ ApplyGetMemoName(exe_name)
      /\ memo_call' = [op |-> "get_memo_name", exe |-> exe_name,
                       ret |-> get_memo_name(mapping, exe_name).name]
      /\ UNCHANGED <<data_dir, notes>>
      /\ MemoFrame

MmGetMemoFilePath ==
    \E exe_name \in MemoExes :
      /\ ApplyGetMemoName(exe_name)
      /\ memo_call' = [op |-> "get_memo_file_path", exe |-> exe_name,
                       ret |-> get_memo_file_path(mapping, data_dir, exe_name),
                       saved |-> get_memo_name(mapping, exe_name).saved]
      /\ UNCHANGED <<data_dir, notes>>
      /\ MemoFrame

\* update_mapping(exe_name, memo_name), lines 301-311
MmUpdateMapping ==
    \E exe_name \in MemoExes, memo_name \in {CustomName} :
      /\ mapping' = DictSet(mapping, exe_name, memo_name)
      /\ mapping_files' = [mapping_files EXCEPT ![data_dir] = save_mapping(mapping')]
      /\ derived' = derived \ {exe_name}
      /\ memo_call' = [op |-> "update_mapping", exe |-> NoneVal, ret |-> NoneVal]
      /\ UNCHANGED <<data_dir, notes>>
      /\ MemoFrame

\* an update_data_dir that merges the new directory's file into the mapping
MmUpdateDataDirMerges ==
    \E new_data_dir \in MemoDirs :
      /\ data_dir' = new_data_dir
      /\ mapping' = IF mapping_files[new_data_dir].state = "ok"
                    THEN FromItems(mapping, mapping_files[new_data_dir].items)
                    ELSE mapping
      /\ derived' = {}
      /\ memo_call' = [op |-> "update_data_dir", exe |-> NoneVal, ret |-> NoneVal]
      /\ UNCHANGED <<mapping_files, notes>>
      /\ MemoFrame

\* update_data_dir(new_data_dir), lines 201-212
MmUpdateDataDir ==
    \E new_data_dir \in MemoDirs :
      /\ data_dir' = new_data_dir
      /\ mapping' = load_mapping(mapping_files[new_data_dir])
      /\ derived' = {}
      /\ memo_call' = [op |-> "update_data_dir", exe |-> NoneVal, ret |-> NoneVal]
      /\ UNCHANGED <<mapping_files, notes>>
      /\ MemoFrame

NoCall == [op |-> "none", exe |-> NoneVal, ret |-> NoneVal]

\* mapping.yaml files a directory can hold before the store is constructed
DupFile == [state |-> "ok", items |-> <<<<AppA, CustomName>>, <<AppA, <<"a">>>>>>]

InitialMappingFiles == {NoMappingFile, CorruptMappingFile, DupFile}

MemoIdle ==
    /\ data_dir = DefaultDir
    /\ mapping = <<>>
    /\ mapping_files = [d \in MemoDirs |-> NoMappingFile]
    /\ derived = {}
    /\ memo_call = NoCall

\* __init__(data_dir), lines 13-25
MemoInit ==
    /\ data_dir = DefaultDir
    /\ \E f \in InitialMappingFiles :
         mapping_files = [d \in MemoDirs |-> IF d = DefaultDir THEN f ELSE DupFile]
    /\ mapping = load_mapping(mapping_files[data_dir])
    /\ derived = {}
    /\ memo_call = NoCall

----------------------------------------------------------------------------
(* Settings document and settings.json (app.py) *)

\* Python's None for a window coordinate
NoneNum == 0 - 1

\* default_settings of load_settings, lines 56-64
default_settings ==
    [data_save_dir |-> DefaultDir,
     window |-> [width |-> 400, height |-> 300, left |-> NoneNum, top |-> NoneNum]]

\* dict.update
DictUpdate(d, u) ==
    [k \in DOMAIN d \cup DOMAIN u |-> IF k \in DOMAIN u THEN u[k] ELSE d[k]]

\* in a well-typed document the nested objects are the values of "window"
IsDictKey(k) == k = "window"

\* a merge that replaces a nested object wholesale
MergeKeysReplace(acc, loaded, keys) ==
    [k \in DOMAIN acc |-> IF k \in keys THEN loaded[k] ELSE acc[k]]

RECURSIVE MergeKeys(_, _, _)
MergeKeys(acc, loaded, keys) ==
    IF keys = {} THEN acc
    ELSE LET key == CHOOSE k \in keys : TRUE
             next == IF key \in DOMAIN acc
                     THEN IF IsDictKey(key)
                          THEN [acc EXCEPT ![key] = DictUpdate(acc[key], loaded[key])]
                          ELSE [acc EXCEPT ![key] = loaded[key]]
                     ELSE acc
         IN  MergeKeys(next, loaded, keys \ {key})

\* load_settings(), lines 53-82
load_settings(file) ==
    IF file.state = "ok"
    THEN MergeKeys(default_settings, file.doc, DOMAIN file.doc)
    ELSE default_settings

NoFile == [state |-> "absent", doc |-> <<>>]

CorruptFile == [state |-> "corrupt", doc |-> <<>>]

\* the live window geometries the user can produce
Geoms ==
    {[width |-> 400, height |-> 300, left |-> 10, top |-> 20],
     [width |-> 500, height |-> 350, left |-> 10, top |-> 60],
     [width |-> 400, height |-> 350, left |-> 70, top |-> 20]}

\* what settings.json can hold at startup
InitialFiles ==
    {NoFile, CorruptFile,
     [state |-> "ok", doc |-> [window |-> [left |-> 70]]],
     [state |-> "ok",
      doc |-> [data_save_dir |-> DirA,
               window |-> [width |-> 500, height |-> 350, left |-> 10,
                           top |-> 60, always_on_top |-> TRUE]]]}

\* main(), lines 138-147 and 507-512: the stored size always, the stored
\* position when both coordinates are stored, else where the OS puts the window
RestoreWindow(ws, os_left, os_top) ==
    [width |-> ws.width, height |-> ws.height,
     left |-> IF ws.left # NoneNum /\ ws.top # NoneNum THEN ws.left ELSE os_left,
     top |-> IF ws.left # NoneNum /\ ws.top # NoneNum THEN ws.top ELSE os_top]

\* save_settings(settings), lines 85-92
save_settings(doc) == [state |-> "ok", doc |-> doc]

\* save_window_settings, lines 182-185
AssignWindowNoTop(doc, w) ==
    [doc EXCEPT !.window =
        DictUpdate(@, [width |-> w.width, height |-> w.height, left |-> w.left])]

AssignWindow(doc, w) ==
    [doc EXCEPT !.window =
        DictUpdate(@, [width |-> w.width, height |-> w.height,
                       left |-> w.left, top |-> w.top])]

\* set_shutdown(), lines 126-128: Event.set()
ToggleShutdown(flag) == ~flag

set_shutdown(flag) == TRUE

\* save_window_settings(), lines 164-194, run with the flag as it is when the
\* function is entered and the live window w
save_window_settings(flag, w) ==
    IF flag
    THEN UNCHANGED <<settings, disk>>
    ELSE /\ settings' = AssignWindow(settings, w)
         /\ disk' = save_settings(settings')

Handled(kind, wrote) ==
    ev' = [kind |-> kind, pre_shutdown |-> shutdown, wrote |-> wrote]

WindowKinds == {"close", "moved", "resized", "focus"}

\* the toolkit stores the new geometry in page.window before the handler
\* runs; dragging an edge changes a position and a size at once
Moves(kind, w) == kind \in {"moved", "resized"} \/ w = window

\* on_window_event(e), lines 152-162
on_window_event ==
    \E kind \in WindowKinds, w \in Geoms \cup {window} :
      /\ Moves(kind, w)
      /\ window' = w
      /\ IF kind = "close"
         THEN /\ shutdown' = set_shutdown(shutdown)
              /\ save_window_settings(shutdown', w)
              /\ Handled(kind, ~shutdown')
         ELSE IF kind \in {"moved", "resized"} /\ ~shutdown
         THEN /\ shutdown' = shutdown
              /\ save_window_settings(shutdown, w)
              /\ Handled(kind, ~shutdown)
         ELSE /\ UNCHANGED <<shutdown, settings, disk>>
              /\ Handled(kind, FALSE)
      /\ UNCHANGED <<notes, settings_panel_visible, mon_vars, aw_vars, memo_vars, comp_vars>>

\* on_resize(e), lines 197-205
OnResizeUnguarded ==
    \E w \in Geoms \cup {window} :
      /\ Moves("resized", w)
      /\ window' = w
      /\ save_window_settings(FALSE, w)
      /\ Handled("on_resize", TRUE)
      /\ UNCHANGED <<shutdown, notes, settings_panel_visible, mon_vars, aw_vars, memo_vars, comp_vars>>

on_resize ==
    \E w \in Geoms \cup {window} :
      /\ Moves("resized", w)
      /\ window' = w
      /\ IF shutdown
         THEN UNCHANGED <<settings, disk>> /\ Handled("on_resize", FALSE)
         ELSE save_window_settings(shutdown, w) /\ Handled("on_resize", ~shutdown)
      /\ UNCHANGED <<shutdown, notes, settings_panel_visible, mon_vars, aw_vars, memo_vars, comp_vars>>

\* on_disconnect(e), lines 211-214
on_disconnect ==
    /\ shutdown' = set_shutdown(shutdown)
    /\ save_window_settings(shutdown', window)
    /\ Handled("disconnect", ~shutdown')
    /\ UNCHANGED <<window, notes, settings_panel_visible, mon_vars, aw_vars, memo_vars, comp_vars>>

\* toggle_settings_panel(), lines 238-249
toggle_settings_panel(visible) == IF shutdown THEN visible ELSE ~visible

\* on_settings_click(e), lines 376-378
on_settings_click ==
    /\ settings_panel_visible' = toggle_settings_panel(settings_panel_visible)
    /\ Handled("settings_click", FALSE)
    /\ UNCHANGED <<shutdown, window, settings, disk, notes, mon_vars, aw_vars, memo_vars, comp_vars>>

\* what the directory field can hold
FieldValues == {<<>>, <<" ">>, DirA, <<" ", "B", " ">>, <<"?">>}

\* str.strip()
RECURSIVE LStrip(_)
LStrip(s) == IF s # <<>> /\ Head(s) = " " THEN LStrip(Tail(s)) ELSE s

Strip(s) == LStrip(RStrip(s))

\* ensure_data_dir(data_dir), lines 95-101: mkdir fails on a name that the
\* file system rejects
ensure_data_dir(dir) == \A i \in 1..Len(dir) : dir[i] # "?"

\* the SnackBar texts of save_settings_action, lines 285, 295 and 304
SavedNotice == "saved"

InvalidDirNotice == "invalid directory"

DirRequiredNotice == "directory required"

NoNotice == "none"

\* a save action that closes the panel before it looks at the directory
SaveSettingsClosesFirst(value) ==
    LET new_dir == Strip(value) IN
    /\ settings_panel_visible' = toggle_settings_panel(settings_panel_visible)
    /\ IF new_dir # <<>> /\ ensure_data_dir(new_dir)
       THEN /\ settings' = [settings EXCEPT !.data_save_dir = new_dir]
            /\ disk' = save_settings(settings')
            /\ snack_bar' = SavedNotice
       ELSE /\ UNCHANGED <<settings, disk>>
            /\ snack_bar' = IF new_dir # <<>> THEN InvalidDirNotice
                                              ELSE DirRequiredNotice

\* the body of save_settings_action, lines 279-312, for the field's value
SaveSettingsBody(value) ==
    LET new_dir == Strip(value) IN
    IF new_dir # <<>>
    THEN IF ensure_data_dir(new_dir)
         THEN /\ settings' = [settings EXCEPT !.data_save_dir = new_dir]
              /\ disk' = save_settings(settings')
              /\ snack_bar' = SavedNotice
              /\ settings_panel_visible' = toggle_settings_panel(settings_panel_visible)
         ELSE /\ UNCHANGED <<settings, disk, settings_panel_visible>>
              /\ snack_bar' = InvalidDirNotice
    ELSE /\ UNCHANGED <<settings, disk, settings_panel_visible>>
         /\ snack_bar' = DirRequiredNotice

\* save_settings_action(e), lines 275-312
save_settings_action ==
    \E value \in FieldValues :
      /\ ~shutdown
      /\ SaveSettingsBody(value)
      /\ ev' = [kind |-> "save_settings", pre_shutdown |-> shutdown,
                wrote |-> snack_bar' = SavedNotice, field |-> value]
      /\ UNCHANGED <<shutdown, window, notes, mon_vars, aw_vars, memo_vars,
                     sm_vars, ed_vars, san_vars, more_vars>>

\* cancel_settings_action(e), lines 314-325
cancel_settings_action ==
    /\ ~shutdown
    /\ settings_panel_visible' = toggle_settings_panel(settings_panel_visible)
    /\ Handled("cancel_settings", FALSE)
    /\ UNCHANGED <<shutdown, window, settings, disk, notes, mon_vars, aw_vars, memo_vars, comp_vars>>

NoEvent == [kind |-> "none", pre_shutdown |-> FALSE, wrote |-> FALSE]

\* state of main() when this part of the program is not under study
AppIdle ==
    /\ window = [width |-> 400, height |-> 300, left |-> 10, top |-> 20]
    /\ settings = default_settings
    /\ disk = NoFile
    /\ settings_panel_visible = FALSE
    /\ snack_bar = NoNotice
    /\ ev = NoEvent

\* main(), lines 121-149: after construction
AppInit ==
    /\ disk \in InitialFiles
    /\ settings = load_settings(disk)
    /\ \E g \in Geoms : window = RestoreWindow(settings.window, g.left, g.top)
    /\ settings_panel_visible = FALSE
    /\ snack_bar = NoNotice
    /\ ev = NoEvent

----------------------------------------------------------------------------
(* update_foreground_app (app.py, lines 416-477) *)

\* line 220: the text before the first reading
MonitoringText == [kind |-> "initial", name |-> NoneVal]

\* line 426: "current app: {app_name}"
CurrentAppText(app_name) == [kind |-> "current", name |-> app_name]

\* line 457: the text shown when the utility itself is focused
KeepText(text) == text

SelfFocusText(text) == [kind |-> "self_focused", name |-> NoneVal]

AwIdle ==
    /\ aw_pc = "new"
    /\ aw_app = NoneVal
    /\ aw_last = NoneVal
    /\ current_app_text = MonitoringText

AwFrame == UNCHANGED <<mon_vars, app_vars, memo_vars, comp_vars>>

\* lines 480-488: the thread is started unless the flag is set
AwStart ==
    /\ aw_pc = "new"
    /\ aw_pc' = IF ~shutdown THEN "loop" ELSE "not_started"
    /\ UNCHANGED <<shutdown, notes, aw_app, aw_last, current_app_text>>
    /\ AwFrame

\* set_shutdown() on the UI thread while the loop runs
AwSetShutdown ==
    /\ ~shutdown
    /\ shutdown' = set_shutdown(shutdown)
    /\ UNCHANGED <<notes, aw_vars>>
    /\ AwFrame

\* line 419: while not is_shutting_down()
AwLoop ==
    /\ aw_pc = "loop"
    /\ aw_pc' = IF shutdown THEN "done" ELSE "check"
    /\ UNCHANGED <<shutdown, notes, aw_app, aw_last, current_app_text>>
    /\ AwFrame

\* lines 421-422
AwCheck ==
    /\ aw_pc = "check"
    /\ aw_pc' = IF shutdown THEN "done" ELSE "read"
    /\ UNCHANGED <<shutdown, notes, aw_app, aw_last, current_app_text>>
    /\ AwFrame

\* line 424
AwRead ==
    /\ aw_pc = "read"
    /\ \E raw \in RawReadings : aw_app' = get_foreground_app(raw)
    /\ aw_pc' = "branch"
    /\ UNCHANGED <<shutdown, notes, aw_last, current_app_text>>
    /\ AwFrame

\* lines 425 and 453-455: the if / elif conditions
AwBranch ==
    /\ aw_pc = "branch"
    /\ aw_pc' = IF AppChanged(aw_app, aw_last) /\ ~shutdown
                  THEN "show"
                ELSE IF SelfFocused(aw_app, aw_last) /\ ~shutdown
                  THEN "self"
                ELSE "sleep"
    /\ UNCHANGED <<shutdown, notes, aw_app, aw_last, current_app_text>>
    /\ AwFrame

\* lines 426-427
AwShow ==
    /\ aw_pc = "show"
    /\ current_app_text' = CurrentAppText(aw_app)
    /\ aw_last' = aw_app
    /\ aw_pc' = "show_ui"
    /\ UNCHANGED <<shutdown, notes, aw_app>>
    /\ AwFrame

\* lines 430-436: page.update() unless shut down; when it raises and the flag
\* is set by then, break
AwShowUi ==
    /\ aw_pc = "show_ui"
    /\ IF ~shutdown
       THEN \E raises \in BOOLEAN :
              aw_pc' = IF raises THEN "show_ui_exc" ELSE "create"
       ELSE aw_pc' = "create"
    /\ UNCHANGED <<shutdown, notes, aw_app, aw_last, current_app_text>>
    /\ AwFrame

AwShowUiExc ==
    /\ aw_pc = "show_ui_exc"
    /\ aw_pc' = IF shutdown THEN "done" ELSE "create"
    /\ UNCHANGED <<shutdown, notes, aw_app, aw_last, current_app_text>>
    /\ AwFrame

\* lines 439-451
AwCreate ==
    /\ aw_pc = "create"
    /\ \E dir_ok \in BOOLEAN, write_ok \in BOOLEAN :
         IF ensure_data_dir(settings.data_save_dir) /\ dir_ok /\ ~shutdown
         THEN LET memo_file ==
                    watcher_memo_file_path(aw_app, settings.data_save_dir) IN
              IF ~Exists(memo_file) /\ write_ok
              THEN notes' = WriteNote(memo_file, WatcherTemplate(aw_app))
              ELSE notes' = notes
         ELSE notes' = notes
    /\ aw_pc' = "sleep"
    /\ UNCHANGED <<shutdown, aw_app, aw_last, current_app_text>>
    /\ AwFrame

\* lines 457-458
AwSelf ==
    /\ aw_pc = "self"
    /\ current_app_text' = SelfFocusText(current_app_text)
    /\ aw_last' = NoneVal
    /\ aw_pc' = "self_ui"
    /\ UNCHANGED <<shutdown, notes, aw_app>>
    /\ AwFrame

\* lines 461-467
AwSelfUi ==
    /\ aw_pc = "self_ui"
    /\ IF ~shutdown
       THEN \E raises \in BOOLEAN :
              aw_pc' = IF raises THEN "self_ui_exc" ELSE "sleep"
       ELSE aw_pc' = "sleep"
    /\ UNCHANGED <<shutdown, notes, aw_app, aw_last, current_app_text>>
    /\ AwFrame

AwSelfUiExc ==
    /\ aw_pc = "self_ui_exc"
    /\ aw_pc' = IF shutdown THEN "done" ELSE "sleep"
    /\ UNCHANGED <<shutdown, notes, aw_app, aw_last, current_app_text>>
    /\ AwFrame

\* lines 469-470
AwSleep ==
    /\ aw_pc = "sleep"
    /\ aw_pc' = "loop"
    /\ UNCHANGED <<shutdown, notes, aw_app, aw_last, current_app_text>>
    /\ AwFrame


----------------------------------------------------------------------------
(* ForegroundMonitor (foreground_monitor.py) *)

\* the readings of the debounce example
Example == <<AppA, AppA, AppA, AppB, AppB, NoneVal, NoneVal, AppA>>

Off == 0 - 1

\* nothing has been done with the flag set
SdIdle ==
    /\ cb_after = 0
    /\ ui_after = 0
    /\ created_after = 0

MonInit ==
    /\ mon_pc = "new"
    /\ mon_app = NoneVal
    /\ last_app = NoneVal
    /\ has_cb \in BOOLEAN
    /\ has_ui \in BOOLEAN
    /\ display = InitialText
    /\ last_cb = <<"<never>">>
    /\ stable = FALSE
    /\ seen = 0
    /\ calls = <<>>
    /\ raised = FALSE
    /\ last_raw = NoWindow

\* the callback: the display widget's update_app_name, which may raise
InvokeAppChange(arg, raises) ==
    /\ last_cb' = arg
    /\ stable' = TRUE
    /\ calls' = IF seen = Off THEN calls ELSE Append(calls, arg)
    /\ raised' = (raised \/ raises)
    /\ display' = IF raises THEN display ELSE update_app_name(arg)

NoAppChange == UNCHANGED <<last_cb, stable, calls, raised, display>>

\* set_shutdown() on the UI thread
SetShutdown ==
    /\ ~shutdown
    /\ shutdown' = TRUE
    /\ UNCHANGED <<notes, mon_vars, app_vars, aw_vars, memo_vars, comp_vars>>

\* start_monitoring, lines 82-94
start_monitoring ==
    /\ mon_pc = "new"
    /\ mon_pc' = IF ~shutdown THEN "loop" ELSE "not_started"
    /\ UNCHANGED <<shutdown, notes, mon_app, last_app, has_cb, has_ui, display,
                   last_cb, stable, seen, calls, raised, last_raw,
                   app_vars, aw_vars, memo_vars, comp_vars>>

\* line 98: while not self.shutdown_event.is_set()
MonLoop ==
    /\ mon_pc = "loop"
    /\ mon_pc' = IF shutdown THEN "done" ELSE "check"
    /\ UNCHANGED <<shutdown, notes, mon_app, last_app, has_cb, has_ui, display,
                   last_cb, stable, seen, calls, raised, last_raw,
                   app_vars, aw_vars, memo_vars, comp_vars>>

\* lines 100-101: if self.shutdown_event.is_set(): break
MonCheck ==
    /\ mon_pc = "check"
    /\ mon_pc' = IF shutdown THEN "done" ELSE "read"
    /\ UNCHANGED <<shutdown, notes, mon_app, last_app, has_cb, has_ui, display,
                   last_cb, stable, seen, calls, raised, last_raw,
                   app_vars, aw_vars, memo_vars, comp_vars>>

\* line 103: app_name = get_foreground_app()
MonRead ==
    /\ mon_pc = "read"
    /\ \E raw \in RawReadings :
         LET r == get_foreground_app(raw) IN
         /\ mon_app' = r
         /\ last_raw' = raw
         /\ stable' = (stable /\ r = last_cb)
         /\ seen' = IF seen # Off /\ seen < Len(Example) /\ Example[seen + 1] = r
                    THEN seen + 1 ELSE Off
         /\ calls' = IF seen' = Off THEN <<>> ELSE calls
    /\ mon_pc' = "branch"
    /\ UNCHANGED <<shutdown, notes, last_app, has_cb, has_ui, display,
                   last_cb, raised,
                   app_vars, aw_vars, memo_vars, comp_vars>>

\* lines 104-117: the if / elif conditions
MonBranch ==
    /\ mon_pc = "branch"
    /\ mon_pc' = IF AppChanged(mon_app, last_app) /\ ~shutdown
                   THEN "change_cb"
                 ELSE IF SelfFocused(mon_app, last_app) /\ ~shutdown
                   THEN "self_cb"
                 ELSE "sleep"
    /\ UNCHANGED <<shutdown, notes, mon_app, last_app, has_cb, has_ui, display,
                   last_cb, stable, seen, calls, raised, last_raw,
                   app_vars, aw_vars, memo_vars, comp_vars>>

\* _handle_app_change, lines 137-138: on_app_change_callback(app_name)
MonChangeCb ==
    /\ mon_pc = "change_cb"
    /\ IF has_cb
       THEN \E raises \in BOOLEAN :
              /\ InvokeAppChange(mon_app, raises)
              /\ mon_pc' = IF raises THEN "except" ELSE "change_ui"
       ELSE NoAppChange /\ mon_pc' = "change_ui"
    /\ cb_after' = IF has_cb /\ shutdown THEN cb_after + 1 ELSE cb_after
    /\ UNCHANGED <<shutdown, notes, mon_app, last_app, has_cb, has_ui, seen, last_raw,
                   app_vars, aw_vars, memo_vars, quiet_vars, ui_after,
                   created_after>>

\* a UI update that is made without looking at the flag
MonChangeUiUnguarded ==
    /\ mon_pc = "change_ui"
    /\ mon_pc' = IF has_ui THEN "change_ui_call" ELSE "create"
    /\ UNCHANGED <<shutdown, notes, mon_app, last_app, has_cb, has_ui, display,
                   last_cb, stable, seen, calls, raised, last_raw,
                   app_vars, aw_vars, memo_vars, comp_vars>>

\* _handle_app_change, lines 141-143: the tests before the UI update
MonChangeUi ==
    /\ mon_pc = "change_ui"
    /\ mon_pc' = IF has_ui /\ ~shutdown THEN "change_ui_call" ELSE "create"
    /\ UNCHANGED <<shutdown, notes, mon_app, last_app, has_cb, has_ui, display,
                   last_cb, stable, seen, calls, raised, last_raw,
                   app_vars, aw_vars, memo_vars, comp_vars>>

\* _handle_app_change, line 144: on_ui_update_callback()
MonChangeUiCall ==
    /\ mon_pc = "change_ui_call"
    /\ \E raises \in BOOLEAN :
         mon_pc' = IF raises THEN "change_ui_exc" ELSE "create"
    /\ ui_after' = IF shutdown THEN ui_after + 1 ELSE ui_after
    /\ UNCHANGED <<shutdown, notes, mon_app, last_app, has_cb, has_ui, display,
                   last_cb, stable, seen, calls, raised, last_raw,
                   app_vars, aw_vars, memo_vars, quiet_vars, cb_after,
                   created_after>>

\* _handle_app_change, lines 145-148: the UI update raised
MonChangeUiExc ==
    /\ mon_pc = "change_ui_exc"
    /\ mon_pc' = IF shutdown THEN "set_last" ELSE "create"
    /\ UNCHANGED <<shutdown, notes, mon_app, last_app, has_cb, has_ui, display,
                   last_cb, stable, seen, calls, raised, last_raw,
                   app_vars, aw_vars, memo_vars, comp_vars>>

\* _create_memo_file, lines 172-183, after the tests of line 171 have passed
_create_memo_file(app_name, write_ok) ==
    LET memo_file == watcher_memo_file_path(app_name, settings.data_save_dir) IN
    IF ~Exists(memo_file) /\ write_ok
    THEN notes' = WriteNote(memo_file, WatcherTemplate(app_name))
    ELSE notes' = notes

\* _handle_app_change, line 151, and _create_memo_file, lines 170-171:
\* ensure_data_dir(data_dir) and not self.shutdown_event.is_set(); what is
\* outside the try of line 174 may raise, and that reaches the loop's except
MonCreate ==
    /\ mon_pc = "create"
    /\ \E raises \in BOOLEAN, dir_ok \in BOOLEAN :
         /\ mon_pc' = IF raises THEN "except"
                      ELSE IF dir_ok /\ ~shutdown THEN "create_file"
                      ELSE "set_last"
         /\ raised' = (raised \/ raises)
    /\ UNCHANGED <<shutdown, notes, mon_app, last_app, has_cb, has_ui, display,
                   last_cb, stable, seen, calls, last_raw,
                   app_vars, aw_vars, memo_vars, comp_vars>>

\* _create_memo_file, lines 172-183: the path, the existence test and the
\* write
MonCreateFile ==
    /\ mon_pc = "create_file"
    /\ \E raises \in BOOLEAN :
         IF raises
         THEN notes' = notes /\ mon_pc' = "except" /\ raised' = TRUE
         ELSE /\ \E write_ok \in BOOLEAN : _create_memo_file(mon_app, write_ok)
              /\ mon_pc' = "set_last"
              /\ raised' = raised
    /\ created_after' = IF shutdown /\ notes' # notes
                        THEN created_after + 1 ELSE created_after
    /\ UNCHANGED <<shutdown, mon_app, last_app, has_cb, has_ui, display,
                   last_cb, stable, seen, calls, last_raw,
                   app_vars, aw_vars, memo_vars, quiet_vars, cb_after,
                   ui_after>>

\* line 111: self.last_app = app_name
MonSetLast ==
    /\ mon_pc = "set_last"
    /\ last_app' = mon_app
    /\ mon_pc' = "sleep"
    /\ UNCHANGED <<shutdown, notes, mon_app, has_cb, has_ui, display,
                   last_cb, stable, seen, calls, raised, last_raw,
                   app_vars, aw_vars, memo_vars, comp_vars>>

\* _handle_app_focus_self, lines 158-159: on_app_change_callback(None)
MonSelfCb ==
    /\ mon_pc = "self_cb"
    /\ IF has_cb
       THEN \E raises \in BOOLEAN :
              /\ InvokeAppChange(NoneVal, raises)
              /\ mon_pc' = IF raises THEN "except" ELSE "self_ui"
       ELSE NoAppChange /\ mon_pc' = "self_ui"
    /\ cb_after' = IF has_cb /\ shutdown THEN cb_after + 1 ELSE cb_after
    /\ UNCHANGED <<shutdown, notes, mon_app, last_app, has_cb, has_ui, seen, last_raw,
                   app_vars, aw_vars, memo_vars, quiet_vars, ui_after,
                   created_after>>

\* _handle_app_focus_self, lines 162-164: the tests before the UI update
MonSelfUi ==
    /\ mon_pc = "self_ui"
    /\ mon_pc' = IF has_ui /\ ~shutdown THEN "self_ui_call" ELSE "self_set"
    /\ UNCHANGED <<shutdown, notes, mon_app, last_app, has_cb, has_ui, display,
                   last_cb, stable, seen, calls, raised, last_raw,
                   app_vars, aw_vars, memo_vars, comp_vars>>

\* _handle_app_focus_self, lines 165-167: on_ui_update_callback(); a raising
\* UI update is swallowed
MonSelfUiCall ==
    /\ mon_pc = "self_ui_call"
    /\ mon_pc' = "self_set"
    /\ ui_after' = IF shutdown THEN ui_after + 1 ELSE ui_after
    /\ UNCHANGED <<shutdown, notes, mon_app, last_app, has_cb, has_ui, display,
                   last_cb, stable, seen, calls, raised, last_raw,
                   app_vars, aw_vars, memo_vars, quiet_vars, cb_after,
                   created_after>>

\* line 120: self.last_app = None
MonSelfSet ==
    /\ mon_pc = "self_set"
    /\ last_app' = NoneVal
    /\ mon_pc' = "sleep"
    /\ UNCHANGED <<shutdown, notes, mon_app, has_cb, has_ui, display,
                   last_cb, stable, seen, calls, raised, last_raw,
                   app_vars, aw_vars, memo_vars, comp_vars>>

\* a loop that sleeps without looking at the flag
MonSleepUnguarded ==
    /\ mon_pc = "sleep"
    /\ mon_pc' = "sleeping"
    /\ UNCHANGED <<shutdown, notes, mon_app, last_app, has_cb, has_ui, display,
                   last_cb, stable, seen, calls, raised, last_raw,
                   app_vars, aw_vars, memo_vars, comp_vars>>

\* lines 122-123: if not self.shutdown_event.is_set(): time.sleep(0.5)
MonSleep ==
    /\ mon_pc = "sleep"
    /\ mon_pc' = IF ~shutdown THEN "sleeping" ELSE "loop"
    /\ UNCHANGED <<shutdown, notes, mon_app, last_app, has_cb, has_ui, display,
                   last_cb, stable, seen, calls, raised, last_raw,
                   app_vars, aw_vars, memo_vars, comp_vars>>

\* time.sleep(0.5) of line 123 returns: the next iteration
MonWake ==
    /\ mon_pc = "sleeping"
    /\ mon_pc' = "loop"
    /\ UNCHANGED <<shutdown, notes, mon_app, last_app, has_cb, has_ui, display,
                   last_cb, stable, seen, calls, raised, last_raw,
                   app_vars, aw_vars, memo_vars, comp_vars>>

\* a loop without the try of line 99: the exception ends the thread
MonExceptEndsThread ==
    /\ mon_pc = "except"
    /\ mon_pc' = "done"
    /\ UNCHANGED <<shutdown, notes, mon_app, last_app, has_cb, has_ui, display,
                   last_cb, stable, seen, calls, raised, last_raw,
                   app_vars, aw_vars, memo_vars, comp_vars>>

\* lines 124-129: except Exception: time.sleep(1) unless the flag is set,
\* else break
MonExcept ==
    /\ mon_pc = "except"
    /\ mon_pc' = IF ~shutdown THEN "backoff" ELSE "done"
    /\ UNCHANGED <<shutdown, notes, mon_app, last_app, has_cb, has_ui, display,
                   last_cb, stable, seen, calls, raised, last_raw,
                   app_vars, aw_vars, memo_vars, comp_vars>>

\* time.sleep(1) of line 127 returns: the next iteration
MonBackoff ==
    /\ mon_pc = "backoff"
    /\ mon_pc' = "loop"
    /\ UNCHANGED <<shutdown, notes, mon_app, last_app, has_cb, has_ui, display,
                   last_cb, stable, seen, calls, raised, last_raw,
                   app_vars, aw_vars, memo_vars, comp_vars>>

----------------------------------------------------------------------------
(* _sanitize_filename on candidate names (memo_manager.py, lines 50-72) *)

\* longest candidate name drawn from SanChars
MaxLen == 3

\* one character of each class the function tells apart: letters of both
\* cases, a digit, the space, the two kept punctuation marks, dropped ones
SanChars == {"a", "E", "2", " ", "-", "_", "!", "."}

SeqsUpTo(S, n) == UNION {[1..k -> S] : k \in 0..n}

\* "My App!! 2"
MyApp2 == <<"M", "y", " ", "A", "p", "p", "!", "!", " ", "2">>

Candidates == SeqsUpTo(SanChars, MaxLen) \cup {MyApp2}

SanFrame ==
    UNCHANGED <<shutdown, notes, mon_vars, app_vars, aw_vars, memo_vars,
                sm_vars, ed_vars, snack_bar, more_vars>>

\* safe = self._sanitize_filename(name)
SanitizeOnce ==
    /\ san_out = NoneVal
    /\ san_out' = _sanitize_filename(san_in)
    /\ UNCHANGED <<san_in, san_twice>>
    /\ SanFrame

\* self._sanitize_filename(safe)
SanitizeAgain ==
    /\ san_out # NoneVal
    /\ san_twice = NoneVal
    /\ san_twice' = _sanitize_filename(san_out)
    /\ UNCHANGED <<san_in, san_out>>
    /\ SanFrame

SanIdle ==
    /\ san_in = <<>>
    /\ san_out = NoneVal
    /\ san_twice = NoneVal

SanInit ==
    /\ san_in \in Candidates
    /\ san_out = NoneVal
    /\ san_twice = NoneVal

----------------------------------------------------------------------------
(* SettingsManager (settings_manager.py) *)

WindowKeys == {"width", "height", "left", "top", "always_on_top"}

\* the dict literal of __init__, lines 21-27
DefaultWindow ==
    [width |-> 400, height |-> 300, left |-> NoneNum, top |-> NoneNum,
     always_on_top |-> FALSE]

\* self.default_settings, lines 19-28; its "window" entry is a reference to
\* the dict object whose content is dw
sm_default_settings(dw) == [data_save_dir |-> DefaultDir, window |-> dw]

\* the values a settings file gives to the window keys it holds
FileValue ==
    [width |-> 500, height |-> 350, left |-> 50, top |-> 60,
     always_on_top |-> TRUE]

Theme == <<"d", "a", "r", "k">>

\* a JSON object with the top-level keys T and the window keys S
FileDoc(T, S) ==
    [k \in T |-> CASE k = "window" -> [w \in S |-> FileValue[w]]
                   [] k = "data_save_dir" -> DirA
                   [] OTHER -> Theme]

\* valid JSON that is not an object: loaded_settings.items() raises
NotObjectFile == [state |-> "not_object", doc |-> <<>>]

\* a file that exists and that open() cannot read (line 36 raises)
UnreadableFile == [state |-> "unreadable", doc |-> <<>>]

\* what the settings file can hold when the store is constructed
SettingsFiles ==
    {NoFile, CorruptFile, NotObjectFile, UnreadableFile}
    \cup {[state |-> "ok", doc |-> FileDoc(T, S)] :
            T \in SUBSET {"data_save_dir", "window", "theme"},
            S \in SUBSET WindowKeys}

\* dict.copy() is shallow (line 39, line 54): the copy's "window" entry is
\* the same dict object as the original's
copy_shares_window == TRUE

\* load_settings() without the except clause of lines 50-51: a file that
\* cannot be read or parsed leaves the caller without a document
sm_load_settings_uncaught(file, dw) ==
    IF file.state = "ok"
    THEN LET merged_settings ==
                 MergeKeys(sm_default_settings(dw), file.doc, DOMAIN file.doc)
         IN  [ret |-> merged_settings,
              default_window |-> IF copy_shares_window
                                 THEN merged_settings.window ELSE dw]
    ELSE IF file.state = "absent"
    THEN [ret |-> sm_default_settings(dw), default_window |-> dw]
    ELSE [ret |-> [data_save_dir |-> NoneVal, window |-> dw],
          default_window |-> dw]

\* load_settings(), lines 32-54, with dw the content of the dict object
\* default_settings["window"]: the document returned and that object's
\* content afterwards (merged_settings[key].update(value) writes into it
\* when the copy shares it)
sm_load_settings(file, dw) ==
    IF file.state = "ok"
    THEN LET merged_settings ==
                 MergeKeys(sm_default_settings(dw), file.doc, DOMAIN file.doc)
         IN  [ret |-> merged_settings,
              default_window |-> IF copy_shares_window
                                 THEN merged_settings.window ELSE dw]
    ELSE [ret |-> sm_default_settings(dw), default_window |-> dw]

\* an assignment through self.settings["window"]: what the two names hold
\* afterwards
SmWriteWindow(new_window) ==
    /\ sm_settings' = [sm_settings EXCEPT !.window = new_window]
    /\ default_window' = IF sm_shared THEN new_window ELSE default_window

SmFrame ==
    UNCHANGED <<shutdown, notes, mon_vars, app_vars, aw_vars, memo_vars,
                ed_vars, san_vars, snack_bar, more_vars>>

\* a call of load_settings() after construction; the caller gets the document
SmLoadSettings ==
    LET r == sm_load_settings(sm_file, default_window) IN
    /\ default_window' = r.default_window
    /\ sm_settings' = IF sm_shared
                      THEN [sm_settings EXCEPT !.window = r.default_window]
                      ELSE sm_settings
    /\ sm_call' = [op |-> "load_settings", ret |-> r.ret,
                   pre_default |-> default_window]
    /\ UNCHANGED <<sm_file, sm_shared>>
    /\ SmFrame

\* update_window_settings(width, height, left, top), lines 79-85
SmUpdateWindowSettings ==
    \E g \in Geoms :
      /\ SmWriteWindow(DictUpdate(sm_settings.window, g))
      /\ sm_call' = [op |-> "update_window_settings", ret |-> sm_settings',
                     pre_default |-> default_window]
      /\ UNCHANGED <<sm_file, sm_shared>>
      /\ SmFrame

\* update_always_on_top_setting(always_on_top), lines 91-94
SmUpdateAlwaysOnTop ==
    \E always_on_top \in BOOLEAN :
      /\ SmWriteWindow([sm_settings.window EXCEPT !.always_on_top = always_on_top])
      /\ sm_call' = [op |-> "update_always_on_top_setting", ret |-> sm_settings',
                     pre_default |-> default_window]
      /\ UNCHANGED <<sm_file, sm_shared>>
      /\ SmFrame

\* save_settings(), lines 56-68: the file is written, or open() fails and it
\* is left as it was, or json.dump fails after open() has truncated it
SmSaveSettings ==
    \E outcome \in {"ok", "open_fails", "dump_fails"} :
      /\ sm_file' = CASE outcome = "ok" -> [state |-> "ok", doc |-> sm_settings]
                      [] outcome = "open_fails" -> sm_file
                      [] OTHER -> CorruptFile
      /\ sm_call' = [op |-> "save_settings", ret |-> sm_settings,
                     pre_default |-> default_window]
      /\ UNCHANGED <<default_window, sm_settings, sm_shared>>
      /\ SmFrame

SmIdle ==
    /\ sm_file = NoFile
    /\ default_window = DefaultWindow
    /\ sm_settings = sm_default_settings(DefaultWindow)
    /\ sm_shared = copy_shares_window
    /\ sm_call = [op |-> "none", ret |-> sm_settings, pre_default |-> DefaultWindow]

\* __init__(settings_file), lines 11-30
SmInit ==
    /\ sm_file \in SettingsFiles
    /\ LET r == sm_load_settings(sm_file, DefaultWindow) IN
         /\ default_window = r.default_window
         /\ sm_settings = r.ret
         /\ sm_call = [op |-> "__init__", ret |-> r.ret,
                       pre_default |-> DefaultWindow]
    /\ sm_shared = copy_shares_window

----------------------------------------------------------------------------
(* MemoEditor (memo_editor.py) *)

\* most hide_status threads of auto_save asleep at once
MaxHide == 2

\* text typed by the user
Typed(t) == [kind |-> "typed", name |-> t]

Texts == {Typed(<<"1">>), Typed(<<"2">>)}

\* t("memo_editor.preview_empty", default=...), lines 151-153
PreviewEmpty == [kind |-> "preview_empty", name |-> NoneVal]

\* _update_markdown_preview(), lines 144-166: the preview's value for the
\* buffer content
_update_markdown_preview(content) ==
    IF content.kind # "typed" \/ Strip(content.name) # <<>>
    THEN content ELSE PreviewEmpty

EmptyText == Typed(<<>>)

\* what a note file written in an earlier session holds
OldContent == [kind |-> "stored", name |-> <<"o">>]

\* t("memo_editor.template_header", app_name, timestamp), lines 187-191
EditorTemplate(app_name) == [kind |-> "editor_template", name |-> app_name]

\* f"# {app_name} Memo\n\n{error_msg}\n", line 208
LoadErrorText(app_name) == [kind |-> "load_error", name |-> app_name]

\* Path objects the editor is given: <<directory, stem>>
EdPathA == <<DefaultDir, <<"a">>>>

EdPathB == <<DefaultDir, <<"b", "_", "c">>>>

\* current_file_path = None
NoPath == <<NoneVal, NoneVal>>

\* (file_path, app_name) pairs the caller passes to load_memo
EdTargets == {<<EdPathA, <<"a">>>>, <<EdPathB, <<"b", " ", "c">>>>}

NotLoadedTitle == [kind |-> "not_loaded", name |-> NoneVal]

\* self.save_status as _create_components builds it, lines 93-95
InitialStatus == [value |-> "", color |-> "GREEN_600", visible |-> FALSE]

\* has_unsaved_changes(), lines 265-267
has_unsaved_changes == is_dirty

EdFrame ==
    UNCHANGED <<shutdown, mon_vars, app_vars, aw_vars, memo_vars, sm_vars,
                san_vars, snack_bar, more_vars>>

EdCalled(op, ret, wrote) == ed_call' = [op |-> op, ret |-> ret, wrote |-> wrote]

\* _on_text_change(e), lines 123-134: the toolkit has stored the new text
EdTextChange ==
    \E text \in (Texts \cup {EmptyText}) \ {text_area} :
      /\ text_area' = text
      /\ is_dirty' = TRUE
      /\ save_status' = [save_status EXCEPT !.visible = FALSE]
      /\ markdown_preview' = IF selected_index = 1
                             THEN _update_markdown_preview(text)
                             ELSE markdown_preview
      /\ EdCalled("text_change", TRUE, "none")
      /\ UNCHANGED <<current_file_path, title_text, hide_pending, notes,
                     selected_index>>
      /\ EdFrame

\* load_memo(file_path, app_name), lines 168-209; read_ok is whether
\* exists()/open()/read() go through without an exception
EdLoadMemo ==
    \E target \in EdTargets, read_ok \in BOOLEAN :
      LET file_path == target[1]
          app_name == target[2]
      IN  /\ current_file_path' = file_path
          /\ title_text' = [kind |-> "memo_title", name |-> app_name]
          /\ IF read_ok
             THEN /\ text_area' = IF Exists(file_path) THEN notes[file_path]
                                  ELSE EditorTemplate(app_name)
                  /\ save_status' = [save_status EXCEPT !.visible = FALSE]
             ELSE /\ text_area' = LoadErrorText(app_name)
                  /\ save_status' = save_status
          /\ markdown_preview' = IF read_ok /\ selected_index = 1
                                 THEN _update_markdown_preview(text_area')
                                 ELSE markdown_preview
          /\ is_dirty' = FALSE
          /\ EdCalled("load_memo", read_ok, "none")
          /\ UNCHANGED <<hide_pending, notes, selected_index>>
          /\ EdFrame

\* the except branch of save_memo, lines 234-239
SaveErrorStatus == [value |-> "save_error", color |-> "RED_600", visible |-> TRUE]

\* a save_memo() whose except branch clears the dirty flag
SaveMemoClearsOnError(outcome) ==
    IF current_file_path = NoPath \/ ~is_dirty
    THEN [ret |-> TRUE, wrote |-> "none", notes |-> notes,
          is_dirty |-> is_dirty, save_status |-> save_status]
    ELSE IF outcome = "ok"
    THEN [ret |-> TRUE, wrote |-> "ok",
          notes |-> WriteNote(current_file_path, text_area),
          is_dirty |-> FALSE,
          save_status |-> [save_status EXCEPT !.value = "saved", !.visible = TRUE]]
    ELSE [ret |-> FALSE, wrote |-> outcome, notes |-> notes,
          is_dirty |-> FALSE, save_status |-> SaveErrorStatus]

\* a save_memo() that never clears the dirty flag
SaveMemoKeepsDirty(outcome) ==
    IF current_file_path = NoPath \/ ~is_dirty
    THEN [ret |-> TRUE, wrote |-> "none", notes |-> notes,
          is_dirty |-> is_dirty, save_status |-> save_status]
    ELSE [ret |-> outcome = "ok", wrote |-> outcome,
          notes |-> IF outcome = "ok"
                    THEN WriteNote(current_file_path, text_area) ELSE notes,
          is_dirty |-> TRUE,
          save_status |-> IF outcome = "ok"
                          THEN [save_status EXCEPT !.value = "saved",
                                                   !.visible = TRUE]
                          ELSE SaveErrorStatus]

\* an auto_save() that saves whether or not the buffer is dirty
AutoSaveAlways(outcome) ==
    [ret |-> outcome = "ok", wrote |-> outcome,
     notes |-> IF outcome = "ok" /\ current_file_path # NoPath
               THEN WriteNote(current_file_path, text_area) ELSE notes,
     is_dirty |-> IF outcome = "ok" THEN FALSE ELSE is_dirty,
     save_status |-> IF outcome = "ok"
                     THEN [save_status EXCEPT !.value = "saved", !.visible = TRUE]
                     ELSE SaveErrorStatus]

\* a save_memo() whose early return (line 218) tests only the dirty flag:
\* with no file bound, open(None) raises and the except branch runs
SaveMemoOnlyDirtyTest(outcome) ==
    IF ~is_dirty
    THEN [ret |-> TRUE, wrote |-> "none", notes |-> notes,
          is_dirty |-> is_dirty, save_status |-> save_status]
    ELSE IF current_file_path = NoPath
    THEN [ret |-> FALSE, wrote |-> "open_fails", notes |-> notes,
          is_dirty |-> is_dirty, save_status |-> SaveErrorStatus]
    ELSE CASE outcome = "ok" ->
                [ret |-> TRUE, wrote |-> "ok",
                 notes |-> WriteNote(current_file_path, text_area),
                 is_dirty |-> FALSE,
                 save_status |-> [save_status EXCEPT !.value = "saved",
                                                     !.visible = TRUE]]
           [] outcome = "open_fails" ->
                [ret |-> FALSE, wrote |-> "open_fails", notes |-> notes,
                 is_dirty |-> is_dirty, save_status |-> SaveErrorStatus]
           [] OTHER ->
                [ret |-> FALSE, wrote |-> "write_fails",
                 notes |-> WriteNote(current_file_path, EmptyText),
                 is_dirty |-> is_dirty, save_status |-> SaveErrorStatus]

\* save_memo(), lines 211-239: what it returns, whether it wrote, and the
\* files, dirty flag and status line afterwards. outcome is what the file
\* system does: the write goes through, mkdir()/open() raises and the file is
\* left as it was, or write() raises after open() has truncated the file
save_memo(outcome) ==
    IF current_file_path = NoPath \/ ~is_dirty
    THEN [ret |-> TRUE, wrote |-> "none", notes |-> notes,
          is_dirty |-> is_dirty, save_status |-> save_status]
    ELSE CASE outcome = "ok" ->
                [ret |-> TRUE, wrote |-> "ok",
                 notes |-> WriteNote(current_file_path, text_area),
                 is_dirty |-> FALSE,
                 save_status |-> [save_status EXCEPT !.value = "saved",
                                                     !.visible = TRUE]]
           [] outcome = "open_fails" ->
                [ret |-> FALSE, wrote |-> "open_fails", notes |-> notes,
                 is_dirty |-> is_dirty, save_status |-> SaveErrorStatus]
           [] OTHER ->
                [ret |-> FALSE, wrote |-> "write_fails",
                 notes |-> WriteNote(current_file_path, EmptyText),
                 is_dirty |-> is_dirty, save_status |-> SaveErrorStatus]

WriteOutcomes == {"ok", "open_fails", "write_fails"}

\* a call of save_memo()
EdSaveMemo ==
    \E outcome \in WriteOutcomes :
      LET r == save_memo(outcome) IN
      /\ notes' = r.notes
      /\ is_dirty' = r.is_dirty
      /\ save_status' = r.save_status
      /\ EdCalled("save_memo", r.ret, r.wrote)
      /\ UNCHANGED <<current_file_path, title_text, text_area, hide_pending,
                     markdown_preview, selected_index>>
      /\ EdFrame

\* auto_save(), lines 241-255: what the save it makes, if any, returns and
\* does; success = TRUE starts a hide_status thread
auto_save(outcome) ==
    IF is_dirty
    THEN save_memo(outcome)
    ELSE [ret |-> FALSE, wrote |-> "none", notes |-> notes,
          is_dirty |-> is_dirty, save_status |-> save_status]

EdAutoSave ==
    \E outcome \in WriteOutcomes :
      LET r == auto_save(outcome) IN
      /\ r.ret => hide_pending < MaxHide
      /\ notes' = r.notes
      /\ is_dirty' = r.is_dirty
      /\ save_status' = r.save_status
      /\ hide_pending' = IF r.ret THEN hide_pending + 1 ELSE hide_pending
      /\ EdCalled("auto_save", r.ret, r.wrote)
      /\ UNCHANGED <<current_file_path, title_text, text_area,
                     markdown_preview, selected_index>>
      /\ EdFrame

\* hide_status(), lines 249-253, when its sleep is over
EdHideStatus ==
    /\ hide_pending > 0
    /\ hide_pending' = hide_pending - 1
    /\ save_status' = [save_status EXCEPT !.visible = FALSE]
    /\ EdCalled("hide_status", TRUE, "none")
    /\ UNCHANGED <<current_file_path, title_text, text_area, is_dirty, notes,
                   markdown_preview, selected_index>>
    /\ EdFrame

\* clear_memo(), lines 275-293
EdClearMemo ==
    /\ text_area' = EmptyText
    /\ title_text' = NotLoadedTitle
    /\ current_file_path' = NoPath
    /\ is_dirty' = FALSE
    /\ save_status' = [save_status EXCEPT !.visible = FALSE]
    /\ markdown_preview' = EmptyText
    /\ EdCalled("clear_memo", TRUE, "none")
    /\ UNCHANGED <<hide_pending, notes, selected_index>>
    /\ EdFrame

\* _on_tab_change(e), lines 136-142: the toolkit has stored the new index
EdTabChange ==
    \E index \in {0, 1} \ {selected_index} :
      /\ selected_index' = index
      /\ markdown_preview' = IF index = 1
                             THEN _update_markdown_preview(text_area)
                             ELSE markdown_preview
      /\ EdCalled("tab_change", TRUE, "none")
      /\ UNCHANGED <<current_file_path, title_text, text_area, is_dirty,
                     save_status, hide_pending, notes>>
      /\ EdFrame

NoEdCall == [op |-> "none", ret |-> TRUE, wrote |-> "none"]

EdIdle ==
    /\ current_file_path = NoPath
    /\ title_text = NotLoadedTitle
    /\ is_dirty = FALSE
    /\ text_area = EmptyText
    /\ save_status = InitialStatus
    /\ hide_pending = 0
    /\ markdown_preview = EmptyText
    /\ selected_index = 0
    /\ ed_call = NoEdCall

\* __init__(on_content_change), lines 15-26
EdInit == EdIdle

\* note files on disk when the editor is constructed
EdInitialNotes == {<<>>, EdPathA :> OldContent}

----------------------------------------------------------------------------
(* MemoManager.create_memo_file (memo_manager.py, lines 74-125) *)

\* _create_default_content(app_name), lines 103-125
_create_default_content(app_name) == [kind |-> "default_content", name |-> app_name]

\* content = None
NoContent == [kind |-> "none", name |-> NoneVal]

\* content passed by the caller
GivenContent == [kind |-> "given", name |-> <<"g">>]

\* a create_memo_file without the existence check
CreateMemoFileAlways(m, dir, files, exe_name, content, outcome) ==
    LET memo_file == get_memo_file_path(m, dir, exe_name)
        text == IF content = NoContent
                THEN _create_default_content(get_memo_name(m, exe_name).name)
                ELSE content
    IN  [path |-> memo_file,
         notes |-> [p \in DOMAIN files \cup {memo_file} |->
                        IF p = memo_file THEN text ELSE files[p]],
         raised |-> FALSE]

\* a create_memo_file that logs the failure and returns the path
CreateMemoFileSwallows(m, dir, files, exe_name, content, outcome) ==
    LET memo_file == get_memo_file_path(m, dir, exe_name)
        text == IF content = NoContent
                THEN _create_default_content(get_memo_name(m, exe_name).name)
                ELSE content
        written(c) == [p \in DOMAIN files \cup {memo_file} |->
                          IF p = memo_file THEN c ELSE files[p]]
    IN  IF memo_file \in DOMAIN files
        THEN [path |-> memo_file, notes |-> files, raised |-> FALSE]
        ELSE CASE outcome = "ok" ->
                    [path |-> memo_file, notes |-> written(text), raised |-> FALSE]
               [] outcome = "open_fails" ->
                    [path |-> memo_file, notes |-> files, raised |-> FALSE]
               [] OTHER ->
                    [path |-> memo_file, notes |-> written(EmptyText),
                     raised |-> FALSE]

\* create_memo_file(exe_name, content), lines 74-101, with m the mapping and
\* files the note files after line 85 has resolved the path: the path, the
\* note files afterwards and whether the call raises
create_memo_file(m, dir, files, exe_name, content, outcome) ==
    LET memo_file == get_memo_file_path(m, dir, exe_name)
        text == IF content = NoContent
                THEN _create_default_content(get_memo_name(m, exe_name).name)
                ELSE content
        written(c) == [p \in DOMAIN files \cup {memo_file} |->
                          IF p = memo_file THEN c ELSE files[p]]
    IN  IF memo_file \in DOMAIN files
        THEN [path |-> memo_file, notes |-> files, raised |-> FALSE]
        ELSE CASE outcome = "ok" ->
                    [path |-> memo_file, notes |-> written(text), raised |-> FALSE]
               [] outcome = "open_fails" ->
                    [path |-> memo_file, notes |-> files, raised |-> TRUE]
               [] OTHER ->
                    [path |-> memo_file, notes |-> written(EmptyText),
                     raised |-> TRUE]

MmCreateMemoFile ==
    \E exe_name \in MemoExes, content \in {NoContent, GivenContent},
       outcome \in WriteOutcomes :
      /\ ApplyGetMemoName(exe_name)
      /\ LET r == create_memo_file(mapping', data_dir, notes, exe_name,
                                   content, outcome)
         IN  /\ notes' = r.notes
             /\ memo_call' = [op |-> "create_memo_file", exe |-> exe_name,
                              ret |-> r.path, raised |-> r.raised,
                              content |-> content,
                              outcome |-> IF r.path \in DOMAIN notes
                                          THEN "none" ELSE outcome]
      /\ UNCHANGED data_dir
      /\ MemoFrame

----------------------------------------------------------------------------
(* MemoManager: the operations that catch their I/O failures *)

\* ensure_data_dir(), lines 27-34: what mkdir does decides the result
MmEnsureDataDirResult(mkdir_ok) == [ret |-> mkdir_ok, raised |-> FALSE]

\* the text returned by line 146
ReadErrorText == [kind |-> "read_error", name |-> NoneVal]

\* read_memo_file(memo_file), lines 127-146
read_memo_file(files, memo_file, outcome) ==
    IF outcome = "ok"
    THEN IF memo_file \in DOMAIN files
         THEN [ret |-> files[memo_file], raised |-> FALSE]
         ELSE [ret |-> EmptyText, raised |-> FALSE]
    ELSE [ret |-> ReadErrorText, raised |-> FALSE]

\* save_memo_file(memo_file, content), lines 148-171: mkdir, open and write
\* are all inside the try
save_memo_file(files, memo_file, content, outcome) ==
    LET written(c) == [p \in DOMAIN files \cup {memo_file} |->
                          IF p = memo_file THEN c ELSE files[p]]
    IN  CASE outcome = "ok" ->
               [ret |-> TRUE, raised |-> FALSE, notes |-> written(content)]
          [] outcome = "write_fails" ->
               [ret |-> FALSE, raised |-> FALSE, notes |-> written(EmptyText)]
          [] OTHER ->
               [ret |-> FALSE, raised |-> FALSE, notes |-> files]

\* list_memo_files(), lines 173-187: the paths of the data directory
list_memo_files(files, dir, outcome) ==
    IF outcome = "ok"
    THEN [ret |-> {q \in DOMAIN files : q[1] = dir}, raised |-> FALSE]
    ELSE [ret |-> {}, raised |-> FALSE]

\* load_mapping(), lines 214-236, when reading the file can fail
MmLoadMappingResult(file, outcome) ==
    IF outcome = "ok"
    THEN [mapping |-> load_mapping(file), raised |-> FALSE]
    ELSE [mapping |-> <<>>, raised |-> FALSE]

\* save_mapping(), lines 238-262, when writing the file can fail
MmSaveMappingResult(m, file, outcome) ==
    CASE outcome = "ok" -> [file |-> save_mapping(m), raised |-> FALSE]
      [] outcome = "write_fails" -> [file |-> CorruptMappingFile, raised |-> FALSE]
      [] OTHER -> [file |-> file, raised |-> FALSE]

StoreCalled(op, outcome, ret, exc) ==
    memo_call' = [op |-> op, exe |-> NoneVal, ret |-> ret, raised |-> exc,
                  outcome |-> outcome]

StorePaths == {<<DefaultDir, <<"a">>>>}

MmEnsureDataDir ==
    \E mkdir_ok \in BOOLEAN :
      LET r == MmEnsureDataDirResult(mkdir_ok) IN
      /\ StoreCalled("ensure_data_dir", IF mkdir_ok THEN "ok" ELSE "mkdir_fails",
                     r.ret, r.raised)
      /\ UNCHANGED <<notes, data_dir, mapping, mapping_files, derived>>
      /\ MemoFrame

MmReadMemoFile ==
    \E memo_file \in StorePaths, outcome \in {"ok", "read_fails"} :
      LET r == read_memo_file(notes, memo_file, outcome) IN
      /\ StoreCalled("read_memo_file", outcome, r.ret, r.raised)
      /\ UNCHANGED <<notes, data_dir, mapping, mapping_files, derived>>
      /\ MemoFrame

MmSaveMemoFile ==
    \E memo_file \in StorePaths,
       outcome \in WriteOutcomes \cup {"mkdir_fails"} :
      LET r == save_memo_file(notes, memo_file, GivenContent, outcome) IN
      /\ notes' = r.notes
      /\ StoreCalled("save_memo_file", outcome, r.ret, r.raised)
      /\ UNCHANGED <<data_dir, mapping, mapping_files, derived>>
      /\ MemoFrame

MmListMemoFiles ==
    \E outcome \in {"ok", "glob_fails"} :
      LET r == list_memo_files(notes, data_dir, outcome) IN
      /\ StoreCalled("list_memo_files", outcome, r.ret, r.raised)
      /\ UNCHANGED <<notes, data_dir, mapping, mapping_files, derived>>
      /\ MemoFrame

MmLoadMapping ==
    \E outcome \in {"ok", "read_fails"} :
      LET r == MmLoadMappingResult(mapping_files[data_dir], outcome) IN
      /\ mapping' = r.mapping
      /\ derived' = {}
      /\ StoreCalled("load_mapping", outcome, NoneVal, r.raised)
      /\ UNCHANGED <<notes, data_dir, mapping_files>>
      /\ MemoFrame

MmSaveMapping ==
    \E outcome \in WriteOutcomes :
      LET r == MmSaveMappingResult(mapping, mapping_files[data_dir], outcome) IN
      /\ mapping_files' = [mapping_files EXCEPT ![data_dir] = r.file]
      /\ StoreCalled("save_mapping", outcome, NoneVal, r.raised)
      /\ UNCHANGED <<notes, data_dir, mapping, derived>>
      /\ MemoFrame

----------------------------------------------------------------------------
(* HeaderComponent (header.py) *)

\* the window widths tried, and None
Widths == {300, 449, 450, 451, 452, 600}

\* line 104 with another comparison
ShouldShowFrom450(width) == width >= 450

\* line 104: should_show_title = window_width > 450
should_show_title(width) == width > 450

HdFrame ==
    UNCHANGED <<shutdown, notes, mon_vars, app_vars, aw_vars, memo_vars,
                first_vars, tr_vars, uw_vars, st_vars, last_vars>>

\* update_title_visibility(), lines 89-124; page.update() may raise, which
\* the except of line 123 swallows after the two assignments
update_title_visibility(op) ==
    IF ~hd_page \/ window_width = NoneNum
    THEN /\ UNCHANGED <<title_container_visible, title_text_visible>>
         /\ hd_call' = [op |-> op, repaint |-> "none"]
    ELSE IF title_container_visible # should_show_title(window_width)
    THEN /\ title_container_visible' = should_show_title(window_width)
         /\ title_text_visible' = should_show_title(window_width)
         /\ \E repaint \in {"ok", "raised"} :
              hd_call' = [op |-> op, repaint |-> repaint]
    ELSE /\ UNCHANGED <<title_container_visible, title_text_visible>>
         /\ hd_call' = [op |-> op, repaint |-> "none"]

\* set_page(page), lines 82-87
HdSetPage ==
    /\ hd_page' = TRUE
    /\ window_width' = window_width
    /\ update_title_visibility("set_page")
    /\ UNCHANGED always_on_top_checkbox
    /\ HdFrame

\* a call of update_title_visibility()
HdUpdateTitleVisibility ==
    /\ UNCHANGED <<hd_page, window_width>>
    /\ update_title_visibility("update_title_visibility")
    /\ UNCHANGED always_on_top_checkbox
    /\ HdFrame

\* set_always_on_top_state(is_on_top), lines 133-137
set_always_on_top_state ==
    /\ \E is_on_top \in BOOLEAN : always_on_top_checkbox' = is_on_top
    /\ hd_call' = [op |-> "set_always_on_top_state", repaint |-> "none"]
    /\ UNCHANGED <<hd_page, window_width, title_container_visible,
                   title_text_visible>>
    /\ HdFrame

\* the user resizes the window, or the window is not there
HdResize ==
    /\ \E w \in Widths \cup {NoneNum} : window_width' = w
    /\ hd_call' = [op |-> "resize", repaint |-> "none"]
    /\ UNCHANGED <<hd_page, title_container_visible, title_text_visible,
                   always_on_top_checkbox>>
    /\ HdFrame

NoHdCall == [op |-> "none", repaint |-> "none"]

\* __init__ and _create_components, lines 13-56
HdIdle ==
    /\ hd_page = FALSE
    /\ window_width = 600
    /\ title_container_visible = TRUE
    /\ title_text_visible = TRUE
    /\ always_on_top_checkbox = FALSE
    /\ hd_call = NoHdCall

HdInit ==
    /\ hd_page = FALSE
    /\ window_width \in Widths \cup {NoneNum}
    /\ title_container_visible = TRUE
    /\ title_text_visible = TRUE
    /\ always_on_top_checkbox = FALSE
    /\ hd_call = NoHdCall

----------------------------------------------------------------------------
(* I18nManager.t (i18n.py, lines 60-84) *)

\* longest key tried, in characters
MaxKeyLen == 3

KeyChars == {"a", "b", "."}

\* values of the table loaded from the YAML file
Leaf(text, fields) ==
    [kind |-> "str", items |-> <<>>, text |-> text, fields |-> fields]

Dict(items) == [kind |-> "dict", items |-> items, text |-> "", fields |-> {}]

NullValue == [kind |-> "none", items |-> <<>>, text |-> "", fields |-> {}]

ListValue == [kind |-> "list", items |-> <<>>, text |-> "", fields |-> {}]

\* _load_language_file, lines 47-58: a missing or unreadable file gives {}
EmptyTable == Dict(<<>>)

\* a table with plain strings, {name}-style templates, an empty value, a
\* nested map and a list
FullTable ==
    Dict(<<"a">> :> Dict(<<"a">> :> Leaf("title", {})
                         @@ <<"b">> :> Leaf("memo of {n}", {"n"})
                         @@ <<>> :> NullValue)
         @@ <<"b">> :> Leaf("{n} at {m}", {"n", "m"})
         @@ <<>> :> ListValue)

\* a language file whose document is a list, not a mapping
Tables == {EmptyTable, FullTable, ListValue}

\* str.split(".")
RECURSIVE Split(_)
Split(key) ==
    IF \A i \in 1..Len(key) : key[i] # "."
    THEN <<key>>
    ELSE LET i == CHOOSE j \in 1..Len(key) :
                    key[j] = "." /\ \A k \in 1..(j - 1) : key[k] # "."
         IN  <<SubSeq(key, 1, i - 1)>> \o Split(SubSeq(key, i + 1, Len(key)))

\* lines 73-75: value = value[part] for every part; a mapping without the
\* part raises KeyError, a string, a list or None raises TypeError
RECURSIVE Walk(_, _)
Walk(value, parts) ==
    IF parts = <<>> THEN [err |-> "none", value |-> value]
    ELSE IF value.kind # "dict" THEN [err |-> "TypeError", value |-> value]
    ELSE IF Head(parts) \notin DOMAIN value.items
         THEN [err |-> "KeyError", value |-> value]
    ELSE Walk(value.items[Head(parts)], Tail(parts))

\* what the caller gets: an exception, the key, or a text of the table
Raised(exc) == [raised |-> TRUE, exc |-> exc, of |-> "none", key |-> <<>>,
                text |-> "", formatted |-> FALSE]

ReturnsKey(key) == [raised |-> FALSE, exc |-> "none", of |-> "key", key |-> key,
                    text |-> "", formatted |-> FALSE]

ReturnsText(text, formatted) ==
    [raised |-> FALSE, exc |-> "none", of |-> "value", key |-> <<>>,
     text |-> text, formatted |-> formatted]

\* str(value), line 81
Str(value) ==
    CASE value.kind = "str" -> value.text
      [] value.kind = "dict" -> "{...}"
      [] value.kind = "list" -> "[...]"
      [] OTHER -> "None"

\* a lookup whose except clause does not cover the KeyError of str.format
TranslateFormatUncaught(table, key, kwargs) ==
    LET w == Walk(table, Split(key)) IN
    IF w.err # "none" THEN ReturnsKey(key)
    ELSE IF kwargs # {} /\ w.value.kind = "str"
    THEN IF w.value.fields \subseteq kwargs
         THEN ReturnsText(w.value.text, TRUE)
         ELSE Raised("KeyError")
    ELSE ReturnsText(Str(w.value), FALSE)

\* t(key, **kwargs), lines 60-84
t(table, key, kwargs) ==
    LET w == Walk(table, Split(key)) IN
    IF w.err # "none" THEN ReturnsKey(key)
    ELSE IF kwargs # {} /\ w.value.kind = "str"
    THEN IF w.value.fields \subseteq kwargs
         THEN ReturnsText(w.value.text, TRUE)
         ELSE ReturnsKey(key)
    ELSE ReturnsText(Str(w.value), FALSE)

NoResult == [raised |-> FALSE, exc |-> "none", of |-> "none", key |-> <<>>,
             text |-> "", formatted |-> FALSE]

TrFrame ==
    UNCHANGED <<shutdown, notes, mon_vars, app_vars, aw_vars, memo_vars,
                first_vars, hd_vars, uw_vars, st_vars, last_vars>>

\* one call of t
TrTranslate ==
    /\ tr_result = NoResult
    /\ tr_result' = t(strings, tr_key, tr_kwargs)
    /\ UNCHANGED <<strings, tr_key, tr_kwargs>>
    /\ TrFrame

\* set_language(language), lines 90-95: the table is read again
TrSetLanguage ==
    /\ tr_result = NoResult
    /\ strings' \in Tables \ {strings}
    /\ UNCHANGED <<tr_key, tr_kwargs, tr_result>>
    /\ TrFrame

TrIdle ==
    /\ strings = EmptyTable
    /\ tr_key = <<>>
    /\ tr_kwargs = {}
    /\ tr_result = NoResult

TrInit ==
    /\ strings \in Tables
    /\ tr_key \in SeqsUpTo(KeyChars, MaxKeyLen)
    /\ tr_kwargs \in SUBSET {"n", "m"}
    /\ tr_result = NoResult

----------------------------------------------------------------------------
(* update_window_settings and save_settings on two handler threads
   (settings_manager.py, lines 56-85) *)

\* the window-event handler and the resize handler
Handlers == {1, 2}

\* the geometry a handler passes before it has been called
NoArgs == [width |-> NoneNum, height |-> NoneNum, left |-> NoneNum,
           top |-> NoneNum]

UwFrame ==
    UNCHANGED <<shutdown, notes, mon_vars, app_vars, aw_vars, memo_vars,
                ed_vars, san_vars, snack_bar, hd_vars, tr_vars, st_vars,
                last_vars>>

UwCalled(op) ==
    sm_call' = [op |-> op, ret |-> sm_settings', pre_default |-> default_window]

\* one of lines 81-84: self.settings["window"][key] = value
UwAssign(h, key, next) ==
    /\ SmWriteWindow([sm_settings.window EXCEPT ![key] = uw_args[h][key]])
    /\ uw_pc' = [uw_pc EXCEPT ![h] = next]
    /\ UwCalled("update_window_settings")
    /\ UNCHANGED <<sm_file, sm_shared, uw_args>>
    /\ UwFrame

\* a handler is started with the geometry of the live window
UwCall ==
    \E h \in Handlers, g \in Geoms :
      /\ uw_pc[h] = "idle"
      /\ uw_pc' = [uw_pc EXCEPT ![h] = "width"]
      /\ uw_args' = [uw_args EXCEPT ![h] = g]
      /\ UNCHANGED sm_vars
      /\ UwFrame

\* line 81
UwAssignWidth == \E h \in Handlers : uw_pc[h] = "width" /\ UwAssign(h, "width", "height")

\* line 82
UwAssignHeight == \E h \in Handlers : uw_pc[h] = "height" /\ UwAssign(h, "height", "left")

\* line 83
UwAssignLeft == \E h \in Handlers : uw_pc[h] = "left" /\ UwAssign(h, "left", "top")

\* line 84
UwAssignTop == \E h \in Handlers : uw_pc[h] = "top" /\ UwAssign(h, "top", "save")

\* the handler's save_settings(), lines 56-68: json.dump writes self.settings
\* as it is at that moment
UwSave ==
    \E h \in Handlers :
      /\ uw_pc[h] = "save"
      /\ sm_file' = [state |-> "ok", doc |-> sm_settings]
      /\ uw_pc' = [uw_pc EXCEPT ![h] = "idle"]
      /\ UNCHANGED <<default_window, sm_settings, sm_shared, uw_args>>
      /\ UwCalled("save_settings")
      /\ UwFrame

UwIdle ==
    /\ uw_pc = [h \in Handlers |-> "idle"]
    /\ uw_args = [h \in Handlers |-> NoArgs]

----------------------------------------------------------------------------
(* start_monitoring called any number of times
   (foreground_monitor.py, lines 82-94) *)

\* start_monitoring calls tried
MaxStarts == 3

ThreadIds == 1..MaxStarts

\* positions at which a Thread object is running _monitor_loop
PollingPcs == {"loop", "iteration", "sleeping"}

Polling == {i \in ThreadIds : poll_pc[i] \in PollingPcs}

StFrame ==
    UNCHANGED <<shutdown, notes, mon_vars, app_vars, aw_vars, memo_vars,
                first_vars, hd_vars, tr_vars, uw_vars, last_vars>>

\* start_monitoring(), lines 82-94: with the flag unset a new Thread object
\* is made and assigned (line 86) and started (line 89); start() may raise
\* RuntimeError, which line 91 catches
StartMonitoringCall ==
    /\ start_calls < MaxStarts
    /\ start_calls' = start_calls + 1
    /\ IF ~shutdown
       THEN /\ monitor_thread' = start_calls + 1
            /\ \E started \in BOOLEAN :
                 poll_pc' = [poll_pc EXCEPT ![start_calls + 1] =
                               IF started THEN "loop" ELSE "not_started"]
       ELSE UNCHANGED <<monitor_thread, poll_pc>>
    /\ StFrame

\* line 98: while not self.shutdown_event.is_set()
PollLoop ==
    \E i \in ThreadIds :
      /\ poll_pc[i] = "loop"
      /\ poll_pc' = [poll_pc EXCEPT ![i] = IF shutdown THEN "done" ELSE "iteration"]
      /\ UNCHANGED <<monitor_thread, start_calls>>
      /\ StFrame

\* lines 99-129: one iteration; it sleeps unless the flag is set, and the
\* except branch leaves the loop when the flag is set
PollIteration ==
    \E i \in ThreadIds :
      /\ poll_pc[i] = "iteration"
      /\ IF shutdown
         THEN \E next \in {"loop", "done"} : poll_pc' = [poll_pc EXCEPT ![i] = next]
         ELSE poll_pc' = [poll_pc EXCEPT ![i] = "sleeping"]
      /\ UNCHANGED <<monitor_thread, start_calls>>
      /\ StFrame

\* time.sleep returns
PollWake ==
    \E i \in ThreadIds :
      /\ poll_pc[i] = "sleeping"
      /\ poll_pc' = [poll_pc EXCEPT ![i] = "loop"]
      /\ UNCHANGED <<monitor_thread, start_calls>>
      /\ StFrame

\* __init__, line 78: self.monitor_thread = None
StIdle ==
    /\ poll_pc = [i \in ThreadIds |-> "none"]
    /\ monitor_thread = 0
    /\ start_calls = 0

----------------------------------------------------------------------------
(* SettingsPanel (settings_panel.py) *)

\* directories the application passes to the panel
PanelDirs == {DefaultDir, DirA}

SpFrame ==
    UNCHANGED <<shutdown, notes, mon_vars, app_vars, aw_vars, memo_vars,
                first_vars, hd_vars, tr_vars, uw_vars, st_vars, sv_vars,
                cr_vars, sd_vars>>

\* a handler has run and has invoked the callbacks cbs, in that order
SpCalled(op, cbs) ==
    sp_call' = [op |-> op, callbacks |-> cbs, pre_field |-> data_dir_field]

NoArg == <<"<no argument>">>

\* the user edits the text field
SpInput ==
    \E value \in FieldValues \ {data_dir_field} :
      /\ data_dir_field' = value
      /\ SpCalled("input", <<>>)
      /\ UNCHANGED <<initial_data_dir, sp_visible, container_visible,
                     sp_external>>
      /\ SpFrame

\* _on_save_click(e), lines 114-116
_on_save_click ==
    /\ SpCalled("save_click",
                <<[cb |-> "on_save", arg |-> Strip(data_dir_field)]>>)
    /\ UNCHANGED <<initial_data_dir, data_dir_field, sp_visible,
                   container_visible, sp_external>>
    /\ SpFrame

\* a cancel handler that leaves the field as the user typed it
CancelKeepsField ==
    /\ SpCalled("cancel_click", <<[cb |-> "on_cancel", arg |-> NoArg]>>)
    /\ UNCHANGED <<initial_data_dir, data_dir_field, sp_visible,
                   container_visible, sp_external>>
    /\ SpFrame

\* _on_cancel_click(e), lines 118-121
_on_cancel_click ==
    /\ data_dir_field' = initial_data_dir
    /\ SpCalled("cancel_click", <<[cb |-> "on_cancel", arg |-> NoArg]>>)
    /\ UNCHANGED <<initial_data_dir, sp_visible, container_visible,
                   sp_external>>
    /\ SpFrame

\* _on_pick_directory_click(e), lines 123-125
_on_pick_directory_click ==
    /\ SpCalled("pick_click", <<[cb |-> "on_pick_directory", arg |-> NoArg]>>)
    /\ UNCHANGED <<initial_data_dir, data_dir_field, sp_visible,
                   container_visible, sp_external>>
    /\ SpFrame

\* show() and hide(), lines 127-135
SpSetVisible(op, value) ==
    /\ sp_visible' = value
    /\ container_visible' = value
    /\ SpCalled(op, <<>>)
    /\ UNCHANGED <<initial_data_dir, data_dir_field, sp_external>>
    /\ SpFrame

SpShow == SpSetVisible("show", TRUE)

SpHide == SpSetVisible("hide", FALSE)

\* toggle(), lines 137-142
SpToggle == SpSetVisible("toggle", ~sp_visible)

\* update_data_dir(new_dir), lines 144-147
SpUpdateDataDir ==
    \E new_dir \in PanelDirs :
      /\ data_dir_field' = new_dir
      /\ initial_data_dir' = new_dir
      /\ sp_external' = new_dir
      /\ SpCalled("update_data_dir", <<>>)
      /\ UNCHANGED <<sp_visible, container_visible>>
      /\ SpFrame

\* __init__(initial_data_dir, ...), lines 11-36
SpInit ==
    /\ initial_data_dir \in PanelDirs
    /\ data_dir_field = initial_data_dir
    /\ sp_visible = FALSE
    /\ container_visible = FALSE
    /\ sp_external = initial_data_dir
    /\ sp_call = [op |-> "__init__", callbacks |-> <<>>,
                  pre_field |-> initial_data_dir]

SpIdle == SpInit /\ initial_data_dir = DefaultDir

----------------------------------------------------------------------------
(* MemoEditor.save_memo statement by statement on a timer thread, with     *)
(* text changes arriving on the UI thread (memo_editor.py)                 *)

SvFrame ==
    UNCHANGED <<shutdown, mon_vars, app_vars, aw_vars, memo_vars, sm_vars,
                san_vars, snack_bar, hd_vars, tr_vars, uw_vars, st_vars,
                sp_vars, cr_vars, sd_vars, current_file_path, title_text,
                selected_index, ed_call>>

SvStep(next) ==
    /\ sv_pc' = next
    /\ UNCHANGED <<sv_caller, ui_pc, overlap>>

\* the timer thread calls auto_save() (line 243 reads the dirty flag) or
\* save_memo()
SvCall ==
    \E caller \in {"auto_save", "save_memo"} :
      /\ sv_pc = "idle"
      /\ sv_caller' = caller
      /\ sv_pc' = IF caller = "auto_save" /\ ~is_dirty THEN "idle" ELSE "guard"
      /\ UNCHANGED <<ui_pc, overlap, last_save, notes, is_dirty, text_area,
                     save_status, hide_pending, markdown_preview>>
      /\ SvFrame

\* line 218-219
SvGuard ==
    /\ sv_pc = "guard"
    /\ SvStep(IF current_file_path = NoPath \/ ~is_dirty THEN "idle" ELSE "open")
    /\ UNCHANGED <<last_save, notes, is_dirty, text_area, save_status,
                   hide_pending, markdown_preview>>
    /\ SvFrame

\* lines 223-225: mkdir and open(..., "w"), which truncates the file
SvOpen ==
    \E ok \in BOOLEAN :
      /\ sv_pc = "open"
      /\ SvStep(IF ok THEN "write" ELSE "except")
      /\ notes' = IF ok THEN WriteNote(current_file_path, EmptyText) ELSE notes
      /\ UNCHANGED <<last_save, is_dirty, text_area, save_status,
                     hide_pending, markdown_preview>>
      /\ SvFrame

\* line 226: the buffer is read and written, and the file is closed
SvWrite ==
    \E ok \in BOOLEAN :
      /\ sv_pc = "write"
      /\ SvStep(IF ok THEN "clear" ELSE "except")
      /\ notes' = IF ok THEN WriteNote(current_file_path, text_area) ELSE notes
      /\ UNCHANGED <<last_save, is_dirty, text_area, save_status,
                     hide_pending, markdown_preview>>
      /\ SvFrame

\* line 228
SvClear ==
    /\ sv_pc = "clear"
    /\ SvStep("status")
    /\ is_dirty' = FALSE
    /\ UNCHANGED <<last_save, notes, text_area, save_status, hide_pending,
                   markdown_preview>>
    /\ SvFrame

\* lines 229-232, and lines 245-255 of auto_save: the hide_status thread
SvStatus ==
    /\ sv_pc = "status"
    /\ sv_caller = "auto_save" => hide_pending < MaxHide
    /\ SvStep("idle")
    /\ save_status' = [save_status EXCEPT !.value = "saved", !.visible = TRUE]
    /\ hide_pending' = IF sv_caller = "auto_save"
                       THEN hide_pending + 1 ELSE hide_pending
    /\ last_save' = "ok"
    /\ UNCHANGED <<notes, is_dirty, text_area, markdown_preview>>
    /\ SvFrame

\* lines 234-239
SvExcept ==
    /\ sv_pc = "except"
    /\ SvStep("idle")
    /\ save_status' = SaveErrorStatus
    /\ last_save' = "failed"
    /\ UNCHANGED <<notes, is_dirty, text_area, hide_pending, markdown_preview>>
    /\ SvFrame

\* the toolkit stores the text the user typed; _on_text_change is due
UiInput ==
    \E text \in (Texts \cup {EmptyText}) \ {text_area} :
      /\ ui_pc = "idle"
      /\ text_area' = text
      /\ ui_pc' = "handler"
      /\ overlap' = (overlap \/ sv_pc # "idle")
      /\ UNCHANGED <<sv_pc, sv_caller, last_save, notes, is_dirty, save_status,
                     hide_pending, markdown_preview>>
      /\ SvFrame

\* _on_text_change(e), lines 123-134
UiOnTextChange ==
    /\ ui_pc = "handler"
    /\ is_dirty' = TRUE
    /\ save_status' = [save_status EXCEPT !.visible = FALSE]
    /\ markdown_preview' = IF selected_index = 1
                           THEN _update_markdown_preview(text_area)
                           ELSE markdown_preview
    /\ ui_pc' = "idle"
    /\ overlap' = (overlap \/ sv_pc # "idle")
    /\ UNCHANGED <<sv_pc, sv_caller, last_save, notes, text_area, hide_pending>>
    /\ SvFrame

\* hide_status(), lines 249-253, when its sleep is over
SvHideStatus ==
    /\ hide_pending > 0
    /\ hide_pending' = hide_pending - 1
    /\ save_status' = [save_status EXCEPT !.visible = FALSE]
    /\ UNCHANGED <<sv_vars, notes, is_dirty, text_area, markdown_preview>>
    /\ SvFrame

\* no save_memo call is running and no text change is pending
SvIdle ==
    /\ sv_pc = "idle"
    /\ sv_caller = "save_memo"
    /\ ui_pc = "idle"
    /\ last_save = "none"
    /\ overlap = FALSE

\* the editor after load_memo(file_path, app_name) has read the file or set
\* the template (lines 176-197), edit tab selected
EdLoaded ==
    \E target \in EdTargets :
      /\ current_file_path = target[1]
      /\ title_text = [kind |-> "memo_title", name |-> target[2]]
      /\ text_area = IF Exists(target[1]) THEN notes[target[1]]
                     ELSE EditorTemplate(target[2])
      /\ is_dirty = FALSE
      /\ save_status = InitialStatus
      /\ hide_pending = 0
      /\ markdown_preview = EmptyText
      /\ selected_index = 0
      /\ ed_call = [op |-> "load_memo", ret |-> TRUE, wrote |-> "none"]

----------------------------------------------------------------------------
(* The existence check and the write of the two note-file creators,       *)
(* statement by statement (memo_manager.py 85-101,                        *)
(* foreground_monitor.py 169-183)                                          *)

Creators == {1, 2}

\* the executable both creators are called for
CrExe == PlainA

CrFrame ==
    UNCHANGED <<shutdown, mon_vars, app_vars, aw_vars, first_vars, hd_vars,
                tr_vars, uw_vars, st_vars, sp_vars, sv_vars, sd_vars>>

\* memo_file of memo_manager.py line 85 and of foreground_monitor.py line 172
CrPath(i) ==
    IF cr_kind[i] = "manager"
    THEN get_memo_file_path(mapping, data_dir, CrExe)
    ELSE watcher_memo_file_path(CrExe, data_dir)

\* what the creator writes: lines 89-94 of memo_manager.py, lines 176-179 of
\* foreground_monitor.py
CrText(i) ==
    IF cr_kind[i] = "watcher" THEN WatcherTemplate(CrExe)
    ELSE IF cr_content[i] = NoContent
    THEN _create_default_content(get_memo_name(mapping, CrExe).name)
    ELSE cr_content[i]

\* a thread calls create_memo_file(exe_name, content) or _create_memo_file
CrCall(i) ==
    \E kind \in {"manager", "watcher"}, content \in {NoContent, GivenContent} :
      /\ cr_pc[i] = "idle"
      /\ kind = "watcher" => content = NoContent
      /\ cr_pc' = [cr_pc EXCEPT ![i] = "check"]
      /\ cr_kind' = [cr_kind EXCEPT ![i] = kind]
      /\ cr_content' = [cr_content EXCEPT ![i] = content]
      /\ UNCHANGED <<notes, memo_vars>>
      /\ CrFrame

\* memo_manager.py lines 85-87 (get_memo_file_path records an unknown
\* executable in the mapping), foreground_monitor.py lines 171-173
CrCheck(i) ==
    /\ cr_pc[i] = "check"
    /\ cr_pc' = [cr_pc EXCEPT ![i] = IF Exists(CrPath(i)) THEN "idle" ELSE "open"]
    /\ IF cr_kind[i] = "manager"
       THEN ApplyGetMemoName(CrExe) /\ UNCHANGED <<data_dir, memo_call>>
       ELSE UNCHANGED memo_vars
    /\ UNCHANGED <<notes, cr_kind, cr_content>>
    /\ CrFrame

\* open(memo_file, "w"), lines 93 and 175: creates or truncates the file
CrOpen(i) ==
    \E ok \in BOOLEAN :
      /\ cr_pc[i] = "open"
      /\ cr_pc' = [cr_pc EXCEPT ![i] = IF ok THEN "write" ELSE "idle"]
      /\ notes' = IF ok THEN WriteNote(CrPath(i), EmptyText) ELSE notes
      /\ UNCHANGED <<memo_vars, cr_kind, cr_content>>
      /\ CrFrame

\* f.write(...), lines 94 and 176-179, and the close of the file
CrWrite(i) ==
    \E ok \in BOOLEAN :
      /\ cr_pc[i] = "write"
      /\ cr_pc' = [cr_pc EXCEPT ![i] = "idle"]
      /\ notes' = IF ok THEN WriteNote(CrPath(i), CrText(i)) ELSE notes
      /\ UNCHANGED <<memo_vars, cr_kind, cr_content>>
      /\ CrFrame

CrIdle ==
    /\ cr_pc = [i \in Creators |-> "idle"]
    /\ cr_kind = [i \in Creators |-> "manager"]
    /\ cr_content = [i \in Creators |-> NoContent]

LastIdle == SpIdle /\ SvIdle /\ CrIdle /\ SdIdle

----------------------------------------------------------------------------
\* the components added last
OtherIdle == HdIdle /\ TrIdle /\ UwIdle /\ StIdle

MoreIdle == OtherIdle /\ LastIdle

CompIdle == SmIdle /\ EdIdle /\ SanIdle /\ MoreIdle

----------------------------------------------------------------------------
(* The specifications *)

InitMonitor ==
    /\ shutdown = FALSE
    /\ notes = <<>>
    /\ MonInit
    /\ AppIdle
    /\ AwIdle
    /\ MemoIdle
    /\ CompIdle

NextMonitor ==
    \/ SetShutdown
    \/ start_monitoring
    \/ MonLoop
    \/ MonCheck
    \/ MonRead
    \/ MonBranch
    \/ MonChangeCb
    \/ MonChangeUi
    \/ MonChangeUiCall
    \/ MonChangeUiExc
    \/ MonCreate
    \/ MonCreateFile
    \/ MonSetLast
    \/ MonSelfCb
    \/ MonSelfUi
    \/ MonSelfUiCall
    \/ MonSelfSet
    \/ MonSleep
    \/ MonWake
    \/ MonExcept
    \/ MonBackoff

SpecMonitor == InitMonitor /\ [][NextMonitor]_vars

\* the steps of the polling thread
MonThread ==
    \/ MonLoop
    \/ MonCheck
    \/ MonRead
    \/ MonBranch
    \/ MonChangeCb
    \/ MonChangeUi
    \/ MonChangeUiCall
    \/ MonChangeUiExc
    \/ MonCreate
    \/ MonCreateFile
    \/ MonSetLast
    \/ MonSelfCb
    \/ MonSelfUi
    \/ MonSelfUiCall
    \/ MonSelfSet
    \/ MonSleep
    \/ MonWake
    \/ MonExcept
    \/ MonBackoff

\* the thread is scheduled again and again, the callbacks return or raise,
\* and a sleep ends
SpecMonitorFair == InitMonitor /\ [][NextMonitor]_vars /\ WF_vars(MonThread)

InitAppWatcher ==
    /\ shutdown = FALSE
    /\ notes = <<>>
    /\ AppIdle
    /\ MonInit /\ has_cb /\ has_ui
    /\ AwIdle
    /\ MemoIdle
    /\ CompIdle

NextAppWatcher ==
    \/ AwStart
    \/ AwSetShutdown
    \/ AwLoop
    \/ AwCheck
    \/ AwRead
    \/ AwBranch
    \/ AwShow
    \/ AwShowUi
    \/ AwShowUiExc
    \/ AwCreate
    \/ AwSelf
    \/ AwSelfUi
    \/ AwSelfUiExc
    \/ AwSleep

SpecAppWatcher == InitAppWatcher /\ [][NextAppWatcher]_vars

Init ==
    /\ shutdown = FALSE
    /\ notes = <<>>
    /\ AppInit
    /\ MonInit /\ has_cb /\ has_ui
    /\ AwIdle
    /\ MemoIdle
    /\ CompIdle

Next ==
    \/ on_window_event
    \/ on_resize
    \/ on_disconnect
    \/ on_settings_click
    \/ save_settings_action
    \/ cancel_settings_action

Spec == Init /\ [][Next]_vars

InitMemo ==
    /\ shutdown = FALSE
    /\ notes = <<>>
    /\ AppIdle
    /\ MonInit /\ has_cb /\ has_ui
    /\ AwIdle
    /\ MemoInit
    /\ CompIdle

NextMemo ==
    \/ MmGetMemoName
    \/ MmGetMemoFilePath
    \/ MmUpdateMapping
    \/ MmUpdateDataDir

SpecMemo == InitMemo /\ [][NextMemo]_vars

InitCreate ==
    /\ shutdown = FALSE
    /\ notes = <<>>
    /\ AppIdle
    /\ MonInit /\ has_cb /\ has_ui
    /\ AwIdle
    /\ MemoInit
    /\ CompIdle

NextCreate ==
    \/ MmCreateMemoFile
    \/ MmUpdateMapping

SpecCreate == InitCreate /\ [][NextCreate]_vars

NextStore ==
    \/ MmCreateMemoFile
    \/ MmEnsureDataDir
    \/ MmReadMemoFile
    \/ MmSaveMemoFile
    \/ MmListMemoFiles
    \/ MmLoadMapping
    \/ MmSaveMapping

InitStore ==
    /\ InitCreate
    /\ mapping_files[DefaultDir] = NoMappingFile

SpecStore == InitStore /\ [][NextStore]_vars

InitSanitize ==
    /\ shutdown = FALSE
    /\ notes = <<>>
    /\ AppIdle
    /\ MonInit /\ has_cb /\ has_ui
    /\ AwIdle
    /\ MemoIdle
    /\ SmIdle /\ EdIdle /\ MoreIdle
    /\ SanInit

NextSanitize ==
    \/ SanitizeOnce
    \/ SanitizeAgain

SpecSanitize == InitSanitize /\ [][NextSanitize]_vars

InitSettings ==
    /\ shutdown = FALSE
    /\ notes = <<>>
    /\ AppIdle
    /\ MonInit /\ has_cb /\ has_ui
    /\ AwIdle
    /\ MemoIdle
    /\ SmInit
    /\ EdIdle /\ SanIdle /\ MoreIdle

NextSettings ==
    \/ SmLoadSettings
    \/ SmUpdateWindowSettings
    \/ SmUpdateAlwaysOnTop
    \/ SmSaveSettings

SpecSettings == InitSettings /\ [][NextSettings]_vars

InitHeader ==
    /\ shutdown = FALSE
    /\ notes = <<>>
    /\ MonInit /\ has_cb /\ has_ui
    /\ AppIdle
    /\ AwIdle
    /\ MemoIdle
    /\ SmIdle /\ EdIdle /\ SanIdle
    /\ HdInit
    /\ TrIdle
    /\ UwIdle
    /\ StIdle
    /\ LastIdle

NextHeader ==
    \/ HdSetPage
    \/ HdUpdateTitleVisibility
    \/ HdResize
    \/ set_always_on_top_state

SpecHeader == InitHeader /\ [][NextHeader]_vars

InitTranslate ==
    /\ shutdown = FALSE
    /\ notes = <<>>
    /\ MonInit /\ has_cb /\ has_ui
    /\ AppIdle
    /\ AwIdle
    /\ MemoIdle
    /\ SmIdle /\ EdIdle /\ SanIdle
    /\ HdIdle
    /\ TrInit
    /\ UwIdle
    /\ StIdle
    /\ LastIdle

NextTranslate ==
    \/ TrTranslate
    \/ TrSetLanguage

SpecTranslate == InitTranslate /\ [][NextTranslate]_vars

InitHandlers ==
    /\ shutdown = FALSE
    /\ notes = <<>>
    /\ MonInit /\ has_cb /\ has_ui
    /\ AppIdle
    /\ AwIdle
    /\ MemoIdle
    /\ EdIdle /\ SanIdle /\ MoreIdle
    /\ SmInit
    /\ sm_file \in {NoFile,
                     [state |-> "ok", doc |-> FileDoc({"window"}, WindowKeys)]}

NextHandlers ==
    \/ UwCall
    \/ UwAssignWidth
    \/ UwAssignHeight
    \/ UwAssignLeft
    \/ UwAssignTop
    \/ UwSave

SpecHandlers == InitHandlers /\ [][NextHandlers]_vars

InitStart ==
    /\ shutdown = FALSE
    /\ notes = <<>>
    /\ MonInit /\ has_cb /\ has_ui
    /\ AppIdle
    /\ AwIdle
    /\ MemoIdle
    /\ CompIdle

NextStart ==
    \/ StartMonitoringCall
    \/ SetShutdown
    \/ PollLoop
    \/ PollIteration
    \/ PollWake

SpecStart == InitStart /\ [][NextStart]_vars

InitPanel ==
    /\ shutdown = FALSE
    /\ notes = <<>>
    /\ MonInit /\ has_cb /\ has_ui
    /\ AppIdle
    /\ AwIdle
    /\ MemoIdle
    /\ SmIdle /\ EdIdle /\ SanIdle /\ OtherIdle
    /\ SvIdle /\ CrIdle /\ SdIdle
    /\ SpInit

NextPanel ==
    \/ SpInput
    \/ _on_save_click
    \/ _on_cancel_click
    \/ _on_pick_directory_click
    \/ SpShow
    \/ SpHide
    \/ SpToggle
    \/ SpUpdateDataDir

SpecPanel == InitPanel /\ [][NextPanel]_vars

InitSaving ==
    /\ shutdown = FALSE
    /\ notes \in EdInitialNotes
    /\ AppIdle
    /\ MonInit /\ has_cb /\ has_ui
    /\ AwIdle
    /\ MemoIdle
    /\ SmIdle /\ SanIdle /\ MoreIdle
    /\ EdLoaded

NextSaving ==
    \/ SvCall
    \/ SvGuard
    \/ SvOpen
    \/ SvWrite
    \/ SvClear
    \/ SvStatus
    \/ SvExcept
    \/ SvHideStatus
    \/ UiInput
    \/ UiOnTextChange

SpecSaving == InitSaving /\ [][NextSaving]_vars

InitCreators ==
    /\ shutdown = FALSE
    /\ notes \in EdInitialNotes
    /\ AppIdle
    /\ MonInit /\ has_cb /\ has_ui
    /\ AwIdle
    /\ MemoIdle
    /\ SmIdle /\ SanIdle /\ MoreIdle
    /\ EdLoaded

NextCreators ==
    \/ \E i \in Creators : CrCall(i)
    \/ \E i \in Creators : CrCheck(i)
    \/ \E i \in Creators : CrOpen(i)
    \/ \E i \in Creators : CrWrite(i)
    \/ EdTextChange
    \/ EdSaveMemo

SpecCreators == InitCreators /\ [][NextCreators]_vars

InitEditor ==
    /\ shutdown = FALSE
    /\ notes \in EdInitialNotes
    /\ AppIdle
    /\ MonInit /\ has_cb /\ has_ui
    /\ AwIdle
    /\ MemoIdle
    /\ SmIdle /\ SanIdle /\ MoreIdle
    /\ EdInit

NextEditor ==
    \/ EdTextChange
    \/ EdLoadMemo
    \/ EdSaveMemo
    \/ EdAutoSave
    \/ EdHideStatus
    \/ EdClearMemo
    \/ EdTabChange

SpecEditor == InitEditor /\ [][NextEditor]_vars

----------------------------------------------------------------------------
(* The claims *)

WindowFields == {"width", "height", "left", "top"}

\* the settings file holds the geometry w
FileHoldsGeometry(file, w) ==
    /\ file.state = "ok"
    /\ "window" \in DOMAIN file.doc
    /\ \A k \in WindowFields :
         k \in DOMAIN file.doc.window /\ file.doc.window[k] = w[k]

\* the always_on_top entry of a settings document, as a set
AlwaysOnTop(doc) ==
    {doc.window[k] : k \in {"always_on_top"} \cap DOMAIN doc.window}

\* this step invokes the watcher's app-changed callback
InvokeStep ==
    /\ has_cb
    /\ mon_pc \in {"change_cb", "self_cb"}
    /\ mon_pc' # mon_pc

\* the eight readings of Example have been handled, no callback raised and
\* the flag stayed unset
ExampleDone ==
    /\ seen = Len(Example)
    /\ mon_pc = "sleep"
    /\ has_cb
    /\ ~raised
    /\ ~shutdown

\* C1: after the watcher has invoked the app-changed callback with executable
\* A, it does not invoke it with A again while the readings stay A, also when
\* a callback raised in between.
C1_NoRepeat ==
    [][(InvokeStep /\ mon_pc = "change_cb") => ~(stable /\ last_cb = mon_app)]_vars

C4_ClosePersists ==
    ev.kind \in {"close", "disconnect"} =>
        shutdown /\ FileHoldsGeometry(disk, window)

\* C5: a 'moved' or 'resized' event (on_window_event or on_resize) handled
\* after the flag has been set writes nothing to the settings file and changes
\* no in-memory setting.
C5_SkippedAfterShutdown ==
    [][(ev'.kind \in {"moved", "resized", "on_resize"} /\ shutdown) =>
          /\ ~ev'.wrote
          /\ disk' = disk
          /\ settings' = settings]_vars

C5_Witness ==
    /\ shutdown
    /\ ev.kind = "on_resize"
    /\ ev.pre_shutdown
    /\ disk.state = "ok"
    /\ ~FileHoldsGeometry(disk, window)

\* C6: the flag is unset at startup, is set only by the close handler or the
\* disconnect handler, and once set is never cleared.
C6_Monotonic ==
    /\ ~shutdown
    /\ [][shutdown => shutdown']_vars
    /\ [][(~shutdown /\ shutdown') => ev'.kind \in {"close", "disconnect"}]_vars

C6_Witness ==
    /\ shutdown
    /\ ev.kind = "close"
    /\ ev.pre_shutdown

C8_SelfExcluded ==
    /\ last_raw \in SelfNames => mon_app = NoneVal
    /\ mon_app \notin SelfNames
    /\ last_app \notin SelfNames
    /\ last_cb \notin SelfNames
    /\ \A p \in DOMAIN notes : notes[p].name \notin SelfNames

C8_Witness ==
    /\ last_raw \in SelfNames
    /\ mon_pc = "sleep"
    /\ last_cb = NoneVal
    /\ last_app = NoneVal
    /\ DOMAIN notes # {}

\* C9: the note file the watcher creates for an executable is the file the
\* Memo Store resolves for it.
C9_SameFile ==
    \A p \in DOMAIN notes :
        p = get_memo_file_path(<<>>, p[1], notes[p].name)

\* the memo names the executables are to get
ExpectedName ==
    [e \in MemoExes |->
        CASE e = AppA -> <<"a">>
          [] e = AppB -> <<"b", " ", "c">>
          [] e = PlainA -> <<"a">>]

MergedOver(w, file, base) ==
    /\ DOMAIN w = WindowKeys
    /\ \A k \in WindowKeys :
         w[k] = IF k \in DOMAIN file.doc.window
                THEN file.doc.window[k] ELSE base[k]

HasWindow(file) == file.state = "ok" /\ "window" \in DOMAIN file.doc

C12_UnknownKeysKept ==
    sm_call.op \in {"__init__", "load_settings"} /\ sm_file.state = "ok"
        => DOMAIN sm_file.doc \subseteq DOMAIN sm_call.ret

Bound == current_file_path # NoPath

\* C13: after load_memo has_unsaved_changes() is false; after a text-change
\* event it is true; after a save_memo that succeeds on a bound, edited
\* buffer it is false again and the bound file holds the buffer as it was
\* when save_memo was called.
C13_DirtyLifecycle ==
    [][/\ ed_call'.op = "load_memo" => ~has_unsaved_changes'
       /\ ed_call'.op = "text_change" => has_unsaved_changes'
       /\ (ed_call'.op = "save_memo" /\ Bound /\ has_unsaved_changes
             /\ ed_call'.ret)
            => /\ ~has_unsaved_changes'
               /\ current_file_path \in DOMAIN notes'
               /\ notes'[current_file_path] = text_area
               /\ text_area' = text_area]_vars

C13_Witness ==
    /\ ed_call.op = "save_memo"
    /\ ed_call.wrote = "ok"
    /\ current_file_path = EdPathA
    /\ notes[EdPathA] = Typed(<<"2">>)
    /\ text_area = Typed(<<"2">>)
    /\ ~has_unsaved_changes

\* C14: a save_memo whose write fails returns failure, shows the error
\* status, and leaves the dirty flag set, the buffer and the bound path as
\* they were; a save_memo called on a bound, dirty editor attempts the write.
C14_FailedSaveKeepsDirty ==
    [][ed_call'.op = "save_memo"
         => /\ ed_call'.wrote \in {"open_fails", "write_fails"}
                => /\ ed_call'.ret = FALSE
                   /\ save_status' = SaveErrorStatus
                   /\ is_dirty'
                   /\ text_area' = text_area
                   /\ current_file_path' = current_file_path
            /\ Bound /\ is_dirty => ed_call'.wrote # "none"]_vars

C14_Witness ==
    /\ ed_call.op = "save_memo"
    /\ ed_call.wrote = "write_fails"
    /\ ed_call.ret = FALSE
    /\ is_dirty
    /\ save_status.visible
    /\ text_area = Typed(<<"1">>)

\* C15: with a bound file, auto_save attempts a write if and only if the
\* editor is dirty; a write that goes through stores the buffer as it is at
\* that moment, whatever edits came before, and clears the dirty flag; an
\* auto_save that directly follows an auto_save whose write did not fail
\* writes nothing.
C15_AutoSaveIffDirty ==
    [][ed_call'.op = "auto_save" /\ Bound
         => /\ ed_call'.wrote # "none" <=> is_dirty
            /\ ed_call'.wrote = "ok"
                => /\ notes' = WriteNote(current_file_path, text_area)
                   /\ ~is_dirty'
            /\ ed_call'.wrote = "none" => notes' = notes
            /\ (ed_call.op = "auto_save" /\ ed_call.wrote \in {"ok", "none"})
                => ed_call'.wrote = "none" /\ notes' = notes]_vars

C15_Witness ==
    /\ ed_call.op = "auto_save"
    /\ ed_call.wrote = "none"
    /\ Bound
    /\ current_file_path \in DOMAIN notes
    /\ notes[current_file_path] = Typed(<<"2">>)
    /\ text_area = Typed(<<"2">>)
    /\ hide_pending > 0

IsCreate(call) == call.op = "create_memo_file"

\* C16: a create_memo_file call whose note file already exists, with or
\* without explicit content, leaves every note file as it was, does not
\* raise and returns the path the store resolves for the executable; a
\* creation call that directly follows one for the same executable returns
\* the same path and, when the first call did not raise, changes no file.
C16_CreateIsNoOp ==
    /\ [][IsCreate(memo_call') /\ memo_call'.ret \in DOMAIN notes
            => /\ notes' = notes
               /\ ~memo_call'.raised
               /\ memo_call'.ret =
                    get_memo_file_path(mapping, data_dir, memo_call'.exe)]_vars
    /\ [][IsCreate(memo_call) /\ IsCreate(memo_call')
            /\ memo_call'.exe = memo_call.exe
            => /\ memo_call'.ret = memo_call.ret
               /\ ~memo_call.raised => notes' = notes]_vars

C16_Witness ==
    /\ IsCreate(memo_call)
    /\ memo_call.exe = AppA
    /\ memo_call.content = GivenContent
    /\ ~memo_call.raised
    /\ memo_call.ret \in DOMAIN notes
    /\ notes[memo_call.ret] = _create_default_content(<<"a">>)

\* "My_App_2"
My_App_2 == <<"M", "y", "_", "A", "p", "p", "_", "2">>

\* C17: sanitizing a sanitized name changes nothing; a sanitized name holds
\* only alphanumerics, hyphens and underscores; "My App!! 2" sanitizes to
\* "My_App_2".
C17_Idempotent ==
    /\ san_out # NoneVal
         => \A i \in 1..Len(san_out) :
              san_out[i] \in LowerLetters \cup UpperLetters \cup Digits \cup {"-", "_"}
    /\ san_twice # NoneVal => san_twice = san_out
    /\ san_in = MyApp2 /\ san_out # NoneVal => san_out = My_App_2

C17_Witness ==
    /\ san_in = MyApp2
    /\ san_out = My_App_2
    /\ san_twice = My_App_2

\* C18: a name in which no character is alphanumeric, a hyphen or an
\* underscore (only disallowed characters and spaces, or no character at
\* all) sanitizes to "unknown_app"; no name sanitizes to the empty string.
C18_Fallback ==
    san_out # NoneVal
      => /\ san_out # <<>>
         /\ (\A i \in 1..Len(san_in) : san_in[i] \in {" ", "!", "."})
              => san_out = UnknownApp

C18_Witness ==
    /\ san_in = <<"!", "!", "!">>
    /\ san_out = UnknownApp
    /\ san_twice = UnknownApp

IsGetPath(call) == call.op = "get_memo_file_path"

C20_SeparateNotes ==
    \A e1, e2 \in derived :
      e1 # e2 => get_memo_file_path(mapping, data_dir, e1)
                   # get_memo_file_path(mapping, data_dir, e2)

C22_TitleVisibility ==
    [][(hd_call'.op = "update_title_visibility" /\ hd_page
          /\ window_width # NoneNum)
         => /\ title_container_visible' <=> window_width > 450
            /\ window_width \in {300, 450} => ~title_container_visible'
            /\ window_width = 451 => title_container_visible'
            /\ title_container_visible' = title_container_visible
                 => hd_call'.repaint = "none"]_vars

\* a second call at width 451 found the title visible and repainted nothing
C22_Witness ==
    /\ hd_call = [op |-> "update_title_visibility", repaint |-> "none"]
    /\ hd_page
    /\ window_width = 451
    /\ title_container_visible

\* the path of the key leads through mappings to a value of the table
RECURSIVE HasPath(_, _)
HasPath(value, parts) ==
    \/ parts = <<>>
    \/ /\ value.kind = "dict"
       /\ Head(parts) \in DOMAIN value.items
       /\ HasPath(value.items[Head(parts)], Tail(parts))

CatchingOps ==
    {"ensure_data_dir", "read_memo_file", "save_memo_file", "list_memo_files",
     "load_mapping", "save_mapping"}

\* C24: a create_memo_file call that has to write the note file and whose
\* write fails raises to its caller; ensure_data_dir, read_memo_file,
\* save_memo_file, list_memo_files, load_mapping and save_mapping never
\* raise, whatever the file system does.
C24_OnlyCreateRaises ==
    /\ [][(IsCreate(memo_call') /\ memo_call'.ret \notin DOMAIN notes)
            => (memo_call'.raised <=> memo_call'.outcome # "ok")]_vars
    /\ [][memo_call'.op \in CatchingOps => ~memo_call'.raised]_vars

\* a create_memo_file call raised after the open of the new file failed, and
\* no file is there
C24_Witness ==
    /\ IsCreate(memo_call)
    /\ memo_call.raised
    /\ memo_call.outcome = "open_fails"
    /\ memo_call.ret \notin DOMAIN notes

\* width, height, left and top of a window dict
Geometry(w) == [k \in {"width", "height", "left", "top"} |-> w[k]]

\* C25: update_window_settings changes the four geometry fields as one step:
\* whatever a handler thread saves, the settings file never holds a window
\* of which only some of the four fields come from an update, so its
\* geometry is the one the store was constructed with or one that a call
\* passed.
C25_UpdateIsAtomic ==
    sm_file.state = "ok" =>
      \/ Geometry(sm_file.doc.window) \in Geoms
      \/ Geometry(sm_file.doc.window) \in
            {Geometry(DefaultWindow), Geometry(FileValue)}

\* C26: whatever sequence of start_monitoring calls is made, at most one
\* Thread object is running the polling loop at any time.
C26_OnePollingThread == Cardinality(Polling) <= 1

\* C27: an exception that reaches the loop's except (raised by a callback or
\* by note-file creation) does not end the thread while the flag is unset:
\* the iteration ends without recording the application or writing a file,
\* the thread backs off and then polls again; a lookup that fails gives the
\* empty reading instead of raising.
C27_ErrorCaughtInLoop ==
    /\ [][(mon_pc = "except" /\ mon_pc' # mon_pc)
            => /\ mon_pc' = IF shutdown THEN "done" ELSE "backoff"
               /\ last_app' = last_app
               /\ notes' = notes]_vars
    /\ [][(mon_pc = "backoff" /\ mon_pc' # mon_pc) => mon_pc' = "loop"]_vars
    /\ [](last_raw = LookupError => mon_app = NoneVal)
    /\ ((mon_pc = "except" /\ ~shutdown) ~> (mon_pc = "read" \/ shutdown))

\* after an exception the thread is about to look up the foreground
\* application again
C27_Witness ==
    /\ raised
    /\ mon_pc = "read"
    /\ ~shutdown

\* the thread is inside _monitor_loop
MonRunning == mon_pc \notin {"new", "not_started", "done"}

\* C28: once the flag is set a started polling thread reaches the end of
\* _monitor_loop; with the flag set it never goes to sleep and never goes
\* from the loop condition into another iteration.
C28_LoopExits ==
    /\ [][(shutdown /\ mon_pc' \in {"sleeping", "backoff"})
            => mon_pc = mon_pc']_vars
    /\ [][(shutdown /\ mon_pc = "loop") => mon_pc' \in {"loop", "done"}]_vars
    /\ ((shutdown /\ MonRunning) ~> (mon_pc = "done"))

\* the thread ended after it had called the callback for an application
C28_Witness ==
    /\ shutdown
    /\ mon_pc = "done"
    /\ last_cb = AppA
    /\ last_app = AppA

\* the call created a mapping entry or set one
WritesMapping(call, m) ==
    \/ call.op = "update_mapping"
    \/ call.op \in {"get_memo_name", "get_memo_file_path"} /\ call.exe \notin Keys(m)

\* the value a mapping file gives to an executable: that of its last pair
LastPair(items, k) ==
    items[CHOOSE i \in 1..Len(items) :
            items[i][1] = k /\ \A j \in (i + 1)..Len(items) : items[j][1] # k][2]

\* the mapping m holds what the file holds, the last pair winning
HoldsFile(m, file) ==
    IF file.state = "ok"
    THEN /\ Keys(m) = {file.items[i][1] : i \in 1..Len(file.items)}
         /\ \A k \in Keys(m) : Lookup(m, k) = LastPair(file.items, k)
    ELSE m = <<>>

C30_UpdateDataDir ==
    [][memo_call'.op = "update_data_dir" =>
         /\ HoldsFile(mapping', mapping_files[data_dir'])
         /\ mapping_files[data_dir'].state # "ok" => mapping' = <<>>
         /\ mapping_files' = mapping_files
         /\ notes' = notes]_vars

\* the store went from a directory where b c.EXE had been renamed to the
\* directory whose file only lists a.exe
C30_Witness ==
    /\ memo_call.op = "update_data_dir"
    /\ data_dir = DirA
    /\ mapping = <<<<AppA, <<"a">>>>>>
    /\ mapping_files[DefaultDir].state = "ok"
    /\ \E i \in 1..Len(mapping_files[DefaultDir].items) :
          mapping_files[DefaultDir].items[i] = <<AppB, CustomName>>

\* the settings file is missing, unreadable, not valid JSON or not an object
LoadFails(file) == file.state # "ok"

\* the document the specification names as the defaults
SchemaDefaults == [data_save_dir |-> DefaultDir, window |-> DefaultWindow]

C32_SaveNoOp ==
    [][ed_call'.op = "save_memo" /\ (~Bound \/ ~has_unsaved_changes)
         => /\ ed_call'.ret
            /\ ed_call'.wrote = "none"
            /\ UNCHANGED <<notes, is_dirty, save_status, text_area,
                           current_file_path, title_text, hide_pending,
                           markdown_preview, selected_index>>]_vars

\* save_memo has returned from an editor that has edits and no bound file
C32_Witness ==
    /\ ed_call.op = "save_memo"
    /\ ed_call.ret
    /\ ~Bound
    /\ has_unsaved_changes
    /\ save_status = InitialStatus
\* C33: load_memo always ends with the dirty flag cleared and the
\* save-status line hidden, whether the file existed, the template was
\* generated or the read failed, and it never writes a file.
C33_LoadEndsClean ==
    [][ed_call'.op = "load_memo"
         => /\ ~has_unsaved_changes'
            /\ ~save_status'.visible
            /\ notes' = notes]_vars
\* the editor as _create_components and __init__ leave it
JustConstructed ==
    /\ text_area = EmptyText
    /\ title_text = NotLoadedTitle
    /\ current_file_path = NoPath
    /\ ~is_dirty
    /\ save_status = InitialStatus
    /\ markdown_preview = EmptyText

\* C34: clear_memo returns the editor to its just-constructed state after
\* any sequence of load, edit, save and auto-save operations: empty buffer,
\* 'not loaded' title, no bound path, dirty flag false, a save-status line
\* equal to the initial one (hidden, empty text, normal colour) and an
\* empty preview.
C34_ClearRestoresInitial ==
    [][ed_call'.op = "clear_memo" => JustConstructed']_vars
\* C35: in the settings panel, activating cancel sets the directory field
\* to the value of the most recent update_data_dir call (the construction
\* value if there was none) and invokes the cancel callback exactly once;
\* activating save invokes the save callback exactly once with the trimmed
\* field value and changes neither the field nor the reset point; neither
\* handler changes the panel's visibility.
C35_PanelButtons ==
    [][/\ sp_call'.op = "cancel_click"
            => /\ data_dir_field' = sp_external
               /\ sp_call'.callbacks = <<[cb |-> "on_cancel", arg |-> NoArg]>>
               /\ UNCHANGED <<initial_data_dir, sp_external>>
       /\ sp_call'.op = "save_click"
            => /\ sp_call'.callbacks =
                    <<[cb |-> "on_save", arg |-> Strip(data_dir_field)]>>
               /\ UNCHANGED <<data_dir_field, initial_data_dir, sp_external>>
       /\ sp_call'.op \in {"cancel_click", "save_click"}
            => UNCHANGED <<sp_visible, container_visible>>]_vars

\* cancel on a visible panel has put back the directory of an update_data_dir
\* call over what the user had typed, and the panel is still visible
C35_Witness ==
    /\ sp_call.op = "cancel_click"
    /\ sp_call.pre_field = <<" ", "B", " ">>
    /\ initial_data_dir # sp_call.pre_field
    /\ data_dir_field = DirA
    /\ sp_visible
    /\ container_visible
\* C36: loading or updating settings never modifies the store's default
\* document: after any sequence of load_settings, update_window_settings,
\* update_always_on_top_setting and save_settings, default_settings holds
\* width 400, height 300, left and top none and always_on_top false.
C36_DefaultsIntact == sm_default_settings(default_window) = SchemaDefaults
\* no save_memo call is running and no text-change handler is due
Quiescent == sv_pc = "idle" /\ ui_pc = "idle"

\* C37: whenever the editor is bound to a file, the last save succeeded and
\* has_unsaved_changes() is false, the file's content equals the editor
\* buffer, under every interleaving of a text-change event on the UI thread
\* with save_memo or auto_save running on a timer thread.
C37_CleanMeansSaved ==
    Bound /\ Quiescent /\ last_save = "ok" /\ ~has_unsaved_changes
        => Exists(current_file_path) /\ notes[current_file_path] = text_area
\* creator i creates or truncates its file in this step
CrOpens(i) == cr_pc[i] = "open" /\ cr_pc'[i] = "write"

\* C38: no operation deletes a note file, and the creators
\* (MemoManager.create_memo_file, the watcher's _create_memo_file) write
\* only when no file exists at the path, also when their existence check
\* and write interleave with an editor save or with a second creator on
\* another thread, so that an existing note file's content is never
\* replaced by the auto-generated template.
C38_CreatorsNeverOverwrite ==
    [][/\ DOMAIN notes \subseteq DOMAIN notes'
       /\ \A i \in Creators : CrOpens(i) => ~Exists(CrPath(i))]_vars
\* the positions at which the thread is about to invoke a callback or to
\* create the note file
CbPositions == {"change_cb", "self_cb"}

UiPositions == {"change_ui_call", "self_ui_call"}

\* C39: after the shutdown flag is set the watcher invokes the app-changed
\* callback at most once more, and only in an iteration that had passed its
\* flag test (lines 104-117) before the flag was set: with the flag set the
\* thread never moves on to a callback invocation. It invokes the UI-update
\* callback and creates a note file only when the test made immediately
\* before (line 143, line 164, line 171) found the flag unset, so each of
\* the two happens at most once with the flag set.
C39_AfterShutdown ==
    /\ [](cb_after <= 1)
    /\ [][shutdown /\ mon_pc' \in CbPositions => mon_pc' = mon_pc]_vars
    /\ [][cb_after' # cb_after => mon_pc \in CbPositions]_vars
    /\ [][shutdown /\ mon_pc' \in UiPositions \cup {"create_file"}
            => mon_pc' = mon_pc]_vars
    /\ [][ui_after' # ui_after => mon_pc \in UiPositions]_vars
    /\ [][notes' # notes => mon_pc = "create_file"]_vars
    /\ [](ui_after <= 1 /\ created_after <= 1)
    /\ [](cb_after + ui_after + created_after <= 1)

\* the flag was set after the iteration's test, the callback was invoked for
\* the application once more, and the thread has ended without another call
C39_Witness ==
    /\ shutdown
    /\ cb_after = 1
    /\ last_cb = AppA
    /\ mon_pc = "done"
====
